---------------------------- MODULE Spec2Model ----------------------------
(***************************************************************************)
(* Circuit breaker of src/common/error/circuitbreaker.rs as a state        *)
(* machine.  The InnerState record guarded by the RwLock is the variable   *)
(* `inner`; every critical section of the code (one acquisition of the     *)
(* lock) is one atomic step of the calling thread.  User code (the         *)
(* operation, the predicate, the observers) runs between the steps.        *)
(***************************************************************************)
EXTENDS Integers, Sequences, FiniteSets, TLC

VARIABLES
    config,      \* CircuitBreakerConfig, fixed at construction
    inner,       \* InnerState, the record behind self.inner
    lock,        \* the RwLock itself: "free", "deadlocked" or "poisoned"
    now,         \* the monotonic clock read by Instant::now()
    pc,          \* per caller: position inside execute()
    start_time,  \* per caller: start_time of the running execute()
    op_start,    \* per caller: the instant the operation was started
    duration,    \* per caller: start_time.elapsed() taken when the operation ended
    result,      \* per caller: the operation's result held by execute()
    ret,         \* per caller: what the last execute() call returned
    last_event,  \* the CircuitTransitionEvent built by the last transition
    calls,       \* number of execute() calls started so far
    manual,      \* number of trip() and reset() calls made so far
    failRun,     \* history: length of the run of sequential failing calls since new()
    hoRun,       \* history: sequential successful probes since HalfOpen was entered
    solo,        \* history: the caller whose call met an eligible Open breaker alone
    seqRun,      \* history: number of calls since new(), all of them one after another
    snap,        \* history: InnerState at the start of a call that runs undisturbed
    observers,   \* the observers registered with add_observer(), in order
    obs_mutex,   \* the Mutex around the observer list: "free" or "poisoned"
    pending,     \* per caller: notifications it has still to make before going on
    seen,        \* what the observer has counted, per callback
    last_seen,   \* the last notification an observer received
    resets,      \* number of reset() calls made so far
    manual_ret,  \* how the last trip() or reset() ended, when it panicked
    error,       \* the AklypseError in hand
    base,        \* history: the error before the contexts in `stack` were added
    stack,       \* history: the contexts added to `base`, innermost first
    fs,          \* the directories that exist on the file system
    copy,        \* the last clone made and the error it was made of
    suggestion,  \* the last answer of suggest_autocorrection and its inputs
    probeOk      \* history: successes recorded by probes since HalfOpen was last entered

vars == <<config, inner, lock, now, pc, start_time, op_start, duration, result,
          ret, last_event, calls, manual, failRun, hoRun, solo, seqRun, snap,
          observers, obs_mutex, pending, seen, last_seen, resets, manual_ret,
          error, base, stack, fs, copy, suggestion, probeOk>>

\* The observer side of the breaker
obsVars == <<observers, obs_mutex, pending, seen, last_seen, resets, manual_ret>>

\* The error model
errVars == <<error, base, stack, fs, copy, suggestion>>

\* The breaker, observers included
breakerVars == <<config, inner, lock, now, pc, start_time, op_start, duration,
                 result, ret, last_event, calls, manual, failRun, hoRun, solo,
                 seqRun, snap, obsVars, probeOk>>

----------------------------------------------------------------------------
(* Bounds of the model *)

NumThreads == 2
MaxTime == 2
MaxCalls == 3
MaxManual == 1
MaxThreshold == 2
MaxHalfOpen == 1

(* Values the configurations are drawn from *)
MinRequests == 3
WindowSize == 3
ResetTimeout == 1
OpTimeout == 1
SlowThreshold == 1

Threads == 1..NumThreads

\* The callers of the breaker: the threads that call execute(), and caller 0,
\* which calls trip() and reset()
Callers == 0..NumThreads

(* Program constants *)

\* Duration::from_millis(100), the HalfOpen rejection's retry_after
HalfOpenRetryAfterMs == 100

----------------------------------------------------------------------------
(* Option<T> *)

None == <<>>
Some(x) == <<x>>
IsSome(o) == o # <<>>
Unwrap(o) == o[1]

(* A time stamp the code only ever stores: SystemTime::now() of the metrics
   and the Instant of half_open_entered_at.  Kept as set / not set. *)
Stamped == Some("now")

(* f64 rates are kept as the pair <<count, len>> they are computed from *)
Rate(n, d) == <<n, d>>
\* n/d >= a/b for d > 0, b > 0
RateGeq(r, th) == r[1] * th[2] >= th[1] * r[2]

CountOf(w, x) == Cardinality({i \in 1..Len(w) : w[i] = x})

(* CircuitState *)
Closed == "Closed"
Open == "Open"
HalfOpen == "HalfOpen"
CircuitState == {Closed, Open, HalfOpen}

(* Errors an operation can return, and the error the breaker synthesizes *)
OpErrors == {"Internal", "Validation"}
TimeoutError == "Timeout"

----------------------------------------------------------------------------
(* CircuitMetrics::default() and InnerState::default().  The metrics keep
   the consecutive counters `as u32`; every counter of the model stays far
   below 2^32, where the cast is the identity. *)

DefaultMetrics ==
    [ state |-> Closed,
      total_requests |-> 0,
      successful_requests |-> 0,
      failed_requests |-> 0,
      rejected_requests |-> 0,
      timeout_requests |-> 0,
      consecutive_failures |-> 0,
      consecutive_successes |-> 0,
      last_error_timestamp |-> None,
      last_transition_timestamp |-> None,
      failure_rate_in_window |-> None,
      slow_call_rate_in_window |-> None ]

DefaultInner ==
    [ state |-> Closed,
      opened_at |-> None,
      half_open_entered_at |-> None,
      consecutive_failures |-> 0,
      consecutive_successes |-> 0,
      half_open_concurrency_count |-> 0,
      results_window |-> <<>>,
      slow_call_window |-> <<>>,
      metrics |-> DefaultMetrics ]

(* VecDeque: pop_front() when at capacity, then push_back(x) *)
PushWindow(w, size, x) ==
    IF Len(w) >= size
        THEN Append(IF w = <<>> THEN w ELSE Tail(w), x)
        ELSE Append(w, x)

(* update_rates: recompute both rates of the metrics from the windows *)
update_rates(s) ==
    [s EXCEPT
        !.metrics.failure_rate_in_window =
            IF s.results_window = <<>> THEN None
            ELSE Some(Rate(CountOf(s.results_window, FALSE), Len(s.results_window))),
        !.metrics.slow_call_rate_in_window =
            IF s.slow_call_window = <<>> THEN None
            ELSE Some(Rate(CountOf(s.slow_call_window, TRUE), Len(s.slow_call_window)))]

(* was_slow of record_success / record_failure *)
WasSlow(c, d) ==
    IF IsSome(c.slow_call_duration_threshold)
        THEN d >= Unwrap(c.slow_call_duration_threshold)
        ELSE FALSE

(* Mutant: a success leaves consecutive_failures as it is *)
record_success_keeps_failures(s, c, d) ==
    LET s1 == [s EXCEPT
                 !.consecutive_successes = @ + 1,
                 !.results_window = PushWindow(@, c.sliding_window_size, TRUE),
                 !.slow_call_window = PushWindow(@, c.sliding_window_size, WasSlow(c, d)),
                 !.metrics.total_requests = @ + 1,
                 !.metrics.successful_requests = @ + 1,
                 !.metrics.consecutive_successes = s.consecutive_successes + 1,
                 !.metrics.consecutive_failures = 0]
    IN  update_rates(s1)

record_success(s, c, d) ==
    LET s1 == [s EXCEPT
                 !.consecutive_successes = @ + 1,
                 !.consecutive_failures = 0,
                 !.results_window = PushWindow(@, c.sliding_window_size, TRUE),
                 !.slow_call_window = PushWindow(@, c.sliding_window_size, WasSlow(c, d)),
                 !.metrics.total_requests = @ + 1,
                 !.metrics.successful_requests = @ + 1,
                 !.metrics.consecutive_successes = s.consecutive_successes + 1,
                 !.metrics.consecutive_failures = 0]
    IN  update_rates(s1)

record_failure(s, c, d, t) ==
    LET s1 == [s EXCEPT
                 !.consecutive_failures = @ + 1,
                 !.consecutive_successes = 0,
                 !.results_window = PushWindow(@, c.sliding_window_size, FALSE),
                 !.slow_call_window = PushWindow(@, c.sliding_window_size, WasSlow(c, d)),
                 !.metrics.total_requests = @ + 1,
                 !.metrics.failed_requests = @ + 1,
                 !.metrics.consecutive_failures = s.consecutive_failures + 1,
                 !.metrics.consecutive_successes = 0,
                 !.metrics.last_error_timestamp = Stamped]
    IN  update_rates(s1)

(* Mutant: a rejection is not added to total_requests *)
record_rejected_uncounted(s) ==
    [s EXCEPT !.metrics.rejected_requests = @ + 1]

record_rejected(s) ==
    [s EXCEPT
        !.metrics.total_requests = @ + 1,
        !.metrics.rejected_requests = @ + 1]

record_timeout(s, c, t) ==
    LET s1 == [s EXCEPT
                 !.consecutive_failures = @ + 1,
                 !.consecutive_successes = 0,
                 !.results_window = PushWindow(@, c.sliding_window_size, FALSE),
                 !.metrics.total_requests = @ + 1,
                 !.metrics.timeout_requests = @ + 1,
                 !.metrics.consecutive_failures = s.consecutive_failures + 1,
                 !.metrics.consecutive_successes = 0,
                 !.metrics.last_error_timestamp = Stamped]
    IN  update_rates(s1)

(* Mutant: opening forgets to stamp opened_at *)
transition_to_open_unstamped(s, t) ==
    [s EXCEPT
        !.state = Open,
        !.consecutive_successes = 0,
        !.metrics.state = Open,
        !.metrics.last_transition_timestamp = Stamped]


----------------------------------------------------------------------------
(* State transition helpers.  Each runs under one write lock; none of them
   looks at the state it leaves. *)

transition_to_open(s, t) ==
    [s EXCEPT
        !.state = Open,
        !.opened_at = Some(t),
        !.consecutive_successes = 0,
        !.metrics.state = Open,
        !.metrics.last_transition_timestamp = Stamped]

(* Mutant: closing forgets to clear opened_at *)
transition_to_closed_keeps_opened_at(s, t) ==
    [s EXCEPT
        !.state = Closed,
        !.half_open_entered_at = None,
        !.consecutive_failures = 0,
        !.metrics.state = Closed,
        !.metrics.last_transition_timestamp = Stamped]


(* Mutant: entering HalfOpen leaves the metrics' copy of the state behind *)
transition_to_half_open_stale_metrics(s, t) ==
    [s EXCEPT
        !.state = HalfOpen,
        !.half_open_entered_at = Stamped,
        !.consecutive_successes = 0,
        !.half_open_concurrency_count = 0,
        !.metrics.last_transition_timestamp = Stamped]

transition_to_half_open(s, t) ==
    [s EXCEPT
        !.state = HalfOpen,
        !.half_open_entered_at = Stamped,
        !.consecutive_successes = 0,
        !.half_open_concurrency_count = 0,
        !.metrics.state = HalfOpen,
        !.metrics.last_transition_timestamp = Stamped]

transition_to_closed(s, t) ==
    [s EXCEPT
        !.state = Closed,
        !.opened_at = None,
        !.half_open_entered_at = None,
        !.consecutive_failures = 0,
        !.metrics.state = Closed,
        !.metrics.last_transition_timestamp = Stamped]

(* Mutant: trip() opens the circuit but leaves the consecutive counters *)
trip_keeps_counters(s, c, t) ==
    [s EXCEPT
        !.state = Open,
        !.opened_at = Some(t),
        !.metrics.state = Open,
        !.metrics.last_transition_timestamp = Stamped]

(* trip(): the InnerState it leaves *)
trip(s, c, t) ==
    [s EXCEPT
        !.state = Open,
        !.opened_at = Some(t),
        !.consecutive_failures = c.failure_threshold,
        !.consecutive_successes = 0,
        !.metrics.state = Open,
        !.metrics.consecutive_failures = c.failure_threshold,
        !.metrics.consecutive_successes = 0,
        !.metrics.last_transition_timestamp = Stamped]

(* Mutant: reset() forgets to clear the windows *)
reset_keeps_windows(s, t) ==
    [s EXCEPT
        !.state = Closed,
        !.opened_at = None,
        !.half_open_entered_at = None,
        !.consecutive_failures = 0,
        !.consecutive_successes = 0,
        !.half_open_concurrency_count = 0,
        !.metrics.state = Closed,
        !.metrics.consecutive_failures = 0,
        !.metrics.consecutive_successes = 0,
        !.metrics.last_transition_timestamp = Stamped]

(* reset(): the InnerState it leaves *)
reset(s, t) ==
    [s EXCEPT
        !.state = Closed,
        !.opened_at = None,
        !.half_open_entered_at = None,
        !.consecutive_failures = 0,
        !.consecutive_successes = 0,
        !.half_open_concurrency_count = 0,
        !.metrics.state = Closed,
        !.metrics.consecutive_failures = 0,
        !.metrics.consecutive_successes = 0,
        !.metrics.last_transition_timestamp = Stamped,
        !.results_window = <<>>,
        !.slow_call_window = <<>>]

(* CircuitTransitionEvent { from_state, to_state, reason } *)
TransitionEvent(from, to, reason) ==
    [from_state |-> from, to_state |-> to, reason |-> reason]

NoEvent == [from_state |-> Closed, to_state |-> Closed, reason |-> ""]

(* Mutant: the consecutive-failure rule with > for >= *)
should_open_circuit_strict(s, c) ==
    \/ s.consecutive_failures > c.failure_threshold
    \/ /\ Len(s.results_window) >= c.minimum_request_threshold_for_rate
       /\ s.results_window # <<>>
       /\ RateGeq(Rate(CountOf(s.results_window, FALSE), Len(s.results_window)),
                  c.failure_rate_threshold)
    \/ /\ IsSome(c.slow_call_rate_threshold)
       /\ s.slow_call_window # <<>>
       /\ RateGeq(Rate(CountOf(s.slow_call_window, TRUE), Len(s.slow_call_window)),
                  Unwrap(c.slow_call_rate_threshold))


(* should_open_circuit: the three Closed -> Open rules *)
should_open_circuit(s, c) ==
    \/ s.consecutive_failures >= c.failure_threshold
    \/ /\ Len(s.results_window) >= c.minimum_request_threshold_for_rate
       /\ s.results_window # <<>>
       /\ RateGeq(Rate(CountOf(s.results_window, FALSE), Len(s.results_window)),
                  c.failure_rate_threshold)
    \/ /\ IsSome(c.slow_call_rate_threshold)
       /\ s.slow_call_window # <<>>
       /\ RateGeq(Rate(CountOf(s.slow_call_window, TRUE), Len(s.slow_call_window)),
                  Unwrap(c.slow_call_rate_threshold))

(* should_count_as_failure: the predicate alone decides when there is one *)
should_count_as_failure(c, e) ==
    IF IsSome(c.error_predicate)
        THEN e \in Unwrap(c.error_predicate)
        ELSE TRUE

(* Mutant: the reset timeout must be exceeded, not merely reached *)
should_transition_strict(s, c, t) ==
    IF IsSome(s.opened_at)
        THEN t - Unwrap(s.opened_at) > c.reset_timeout
        ELSE FALSE


(* The Open branch of execute: has reset_timeout elapsed since opened_at *)
should_transition(s, c, t) ==
    IF IsSome(s.opened_at)
        THEN t - Unwrap(s.opened_at) >= c.reset_timeout
        ELSE FALSE

(* Mutant: a plain subtraction in place of checked_sub / unwrap_or_default *)
retry_after_unclamped(s, c, t) ==
    c.reset_timeout - (t - Unwrap(s.opened_at))

(* reset_timeout.checked_sub(elapsed).unwrap_or_default() *)
retry_after(s, c, t) ==
    IF c.reset_timeout - (t - Unwrap(s.opened_at)) >= 0
        THEN c.reset_timeout - (t - Unwrap(s.opened_at))
        ELSE 0

(* The HalfOpen admission test *)
half_open_saturated(s, c) ==
    s.half_open_concurrency_count >= c.half_open_max_concurrent_operations

(* Mutant: one success more than the threshold is needed to close *)
close_circuit_strict(s, c) ==
    s.consecutive_successes > c.success_threshold_to_close


(* inner.consecutive_successes >= success_threshold_to_close *)
close_circuit(s, c) ==
    s.consecutive_successes >= c.success_threshold_to_close

(* saturating_sub(1) on the probe count *)
decrement_probe(s) ==
    [s EXCEPT !.half_open_concurrency_count = IF @ >= 1 THEN @ - 1 ELSE 0]

admit_probe(s) ==
    [s EXCEPT !.half_open_concurrency_count = @ + 1]

----------------------------------------------------------------------------
(* Configurations the breaker is constructed with *)

BaseConfig ==
    [ failure_threshold |-> MaxThreshold,
      failure_rate_threshold |-> Rate(1, 2),
      minimum_request_threshold_for_rate |-> MinRequests,
      success_threshold_to_close |-> MaxThreshold,
      reset_timeout |-> ResetTimeout,
      half_open_max_concurrent_operations |-> MaxHalfOpen,
      operation_timeout |-> None,
      sliding_window_size |-> WindowSize,
      error_predicate |-> None,
      slow_call_duration_threshold |-> None,
      slow_call_rate_threshold |-> None ]

(* BaseConfig and the configurations that differ from it in one setting *)
Configs ==
    {BaseConfig}
    \cup {[BaseConfig EXCEPT !.failure_threshold = k] : k \in 1..MaxThreshold}
    \cup {[BaseConfig EXCEPT !.success_threshold_to_close = m] : m \in 1..MaxThreshold}
    \cup {[BaseConfig EXCEPT !.half_open_max_concurrent_operations = h] :
             h \in 1..MaxHalfOpen}
    \cup {[BaseConfig EXCEPT !.operation_timeout = Some(OpTimeout)]}
    \cup {[BaseConfig EXCEPT !.error_predicate = Some({"Internal"})]}
    \cup {[BaseConfig EXCEPT !.slow_call_duration_threshold = Some(SlowThreshold),
                             !.slow_call_rate_threshold = Some(Rate(1, 2))]}
    \cup {[BaseConfig EXCEPT !.sliding_window_size = 1,
                             !.minimum_request_threshold_for_rate = 1]}
    \cup {[BaseConfig EXCEPT !.sliding_window_size = 0]}
    \cup {[BaseConfig EXCEPT !.failure_threshold = MaxCalls + 1]}
    \cup {[BaseConfig EXCEPT !.operation_timeout = Some(OpTimeout),
                             !.error_predicate = Some({"Internal"})]}

(* The results an operation is made to return.  Without a predicate every
   error is treated alike and one error stands for all of them. *)
OpResults(c) ==
    IF IsSome(c.error_predicate) THEN {"Ok"} \cup OpErrors ELSE {"Ok", "Internal"}

(* start_time = Instant::now().  It is read only for was_slow, so it is
   kept at 0 when no slow-call threshold is configured. *)
StartTime(c, t) ==
    IF IsSome(c.slow_call_duration_threshold) THEN t ELSE 0

(* Per-caller locals outside a call *)
NoResult == ""
NoRet == <<>>
RetOk == <<"Ok">>
\* Mutant: the breaker answers every failure with an error of its own
RetErr_replaced(e) == <<"Err", "Internal">>
RetErr(e) == <<"Err", e>>
RetOpen(after) == <<"Err", "CircuitBreakerOpen", after>>
RetPanic == <<"Panic">>

(* CircuitBreaker::new(): no observer is registered, nothing has been notified *)
(* The error model: AklypseError, its contexts and its foreign sources.

   A text (String, PathBuf, Duration, number) is a sequence of pieces.
   A path is the sequence of its components, the root "/" being the first
   component of an absolute path and a file name with an extension being
   the stem followed by the extension.  A foreign source (the
   std::io::Error or Box<dyn Error> a variant wraps) is known by its
   concrete type, its io::ErrorKind when it is an io::Error, and what its
   Display prints. *)

MaxContexts == 2

Text(s) == <<s>>

ErrorKinds == {"NotFound", "PermissionDenied", "InvalidData", "Other"}

Extensions == {".txt"}

IoError(kind, display) == [type |-> "io", kind |-> kind, display |-> display]

CustomError(display) == [type |-> "custom", kind |-> "", display |-> display]

ErrorLocation(file, line, column) ==
    [file |-> file, line |-> line, column |-> column]

DiagnosticResult(location, fixes, message, code) ==
    [primary_location |-> location, suggested_fixes |-> fixes,
     original_message |-> message, diagnostic_code |-> code]

ErrorContext_new(message) ==
    [message |-> message, diagnostic_info |-> None]

with_diagnostic_info(context, diagnostic) ==
    [context EXCEPT !.diagnostic_info = Some(diagnostic)]

(* One value of the enum.  fields holds the variant's scalar fields in
   declaration order, each an Option; source is the foreign error of the
   variant; context and inner are the context and the boxed source of
   WithRichContext, inner is also the errors of MultipleErrors. *)
AklypseError(variant, fields, source) ==
    [variant |-> variant, fields |-> fields, source |-> source,
     context |-> None, inner |-> <<>>]

Io(source, path, operation) ==
    AklypseError("Io", <<path, Some(operation)>>, Some(source))

Parse(source, kind, context_info) ==
    AklypseError("Parse", <<Some(kind), Some(context_info)>>, Some(source))

Network(source, url, kind) ==
    AklypseError("Network", <<url, Some(kind)>>, Some(source))

Config(message, path, source) ==
    AklypseError("Config", <<Some(message), path>>, source)

Validation(field, message) ==
    AklypseError("Validation", <<Some(field), Some(message)>>, None)

Internal(message, source) ==
    AklypseError("Internal", <<Some(message)>>, source)

CircuitBreakerOpen(name, retry_after_field) ==
    AklypseError("CircuitBreakerOpen", <<Some(name), retry_after_field>>, None)

Timeout(operation, duration_field) ==
    AklypseError("Timeout", <<Some(operation), Some(duration_field)>>, None)

ResourceExhausted(resource, limit, current) ==
    AklypseError("ResourceExhausted",
                 <<Some(resource), Some(limit), Some(current)>>, None)

NotFound(resource_type, identifier) ==
    AklypseError("NotFound", <<Some(resource_type), Some(identifier)>>, None)

StateConflict(message) ==
    AklypseError("StateConflict", <<Some(message)>>, None)

Concurrency(message, source) ==
    AklypseError("Concurrency", <<Some(message)>>, source)

ExternalService(service_name, message, source) ==
    AklypseError("ExternalService", <<Some(service_name), Some(message)>>, source)

MissingValue(item_description) ==
    AklypseError("MissingValue", <<Some(item_description)>>, None)

MultipleErrors(errors) ==
    [variant |-> "MultipleErrors", fields |-> <<>>, source |-> None,
     context |-> None, inner |-> errors]

WithRichContext(context, source) ==
    [variant |-> "WithRichContext", fields |-> <<>>, source |-> None,
     context |-> Some(context), inner |-> <<source>>]

Whatever(message, source) ==
    AklypseError("Whatever", <<Some(message)>>, source)

(* impl Clone: a foreign source cannot be cloned, so the clone carries a
   fresh io::Error of the given kind whose message is what the original
   displays. *)
surrogate_drops_message(kind, source) ==
    IoError(kind, <<>>)

surrogate(kind, source) ==
    IoError(kind, source.display)

RECURSIVE clone(_)
clone(e) ==
    CASE e.variant = "Io" ->
            [e EXCEPT !.source = Some(surrogate(Unwrap(e.source).kind, Unwrap(e.source)))]
      [] e.variant = "Parse" ->
            [e EXCEPT !.source = Some(surrogate("InvalidData", Unwrap(e.source)))]
      [] e.variant = "Network" ->
            [e EXCEPT !.source = Some(surrogate("Other", Unwrap(e.source)))]
      [] e.variant \in {"Config", "Internal", "Concurrency", "ExternalService", "Whatever"} ->
            [e EXCEPT !.source = IF IsSome(e.source)
                                 THEN Some(surrogate("Other", Unwrap(e.source)))
                                 ELSE None]
      [] e.variant = "MultipleErrors" ->
            [e EXCEPT !.inner = [i \in 1..Len(e.inner) |-> clone(e.inner[i])]]
      [] e.variant = "WithRichContext" ->
            [e EXCEPT !.inner = <<clone(e.inner[1])>>]
      [] OTHER -> e

add_context_replaces(self, context) ==
    IF self.variant = "WithRichContext"
    THEN [self EXCEPT !.context = Some(context)]
    ELSE WithRichContext(context, self)

add_context(self, context) ==
    WithRichContext(context, self)

add_context_msg(self, message) ==
    add_context(self, ErrorContext_new(message))

RECURSIVE category(_)
category(e) ==
    CASE e.variant = "Io" -> "Io"
      [] e.variant = "Parse" -> "Parsing"
      [] e.variant = "Network" -> "Network"
      [] e.variant = "Config" -> "Configuration"
      [] e.variant = "Validation" -> "Validation"
      [] e.variant = "Internal" -> "Internal"
      [] e.variant = "CircuitBreakerOpen" -> "CircuitBreaker"
      [] e.variant = "Timeout" -> "Timeout"
      [] e.variant = "ResourceExhausted" -> "ResourceExhaustion"
      [] e.variant = "NotFound" -> "NotFound"
      [] e.variant = "StateConflict" -> "StateConflict"
      [] e.variant = "Concurrency" -> "Concurrency"
      [] e.variant = "ExternalService" -> "ExternalService"
      [] e.variant = "MultipleErrors" -> "Multiple"
      [] e.variant = "WithRichContext" -> category(e.inner[1])
      [] e.variant = "Whatever" -> "Unspecified"
      [] e.variant = "MissingValue" -> "Validation"

get_rich_context(e) ==
    IF e.variant = "WithRichContext" THEN e.context ELSE None

get_diagnostic_info(e) ==
    IF e.variant = "WithRichContext"
    THEN Unwrap(e.context).diagnostic_info
    ELSE None

----------------------------------------------------------------------------
(* Decrust: the autocorrection engine.  A suggestion depends on the error
   and, through Path::exists and Path::is_dir, on the directories that
   exist when it is asked for. *)

parent(p) ==
    LET file_name_len == IF Len(p) >= 2 /\ p[Len(p)] \in Extensions
                         THEN 2 ELSE 1
    IN  IF p = <<>> \/ p = <<"/">> THEN None
        ELSE Some(SubSeq(p, 1, Len(p) - file_name_len))

extension_ignored(p) == None

extension(p) ==
    IF Len(p) >= 2 /\ p[Len(p)] \in Extensions THEN Some(p[Len(p)]) ELSE None

exists(dirs, p) == p \in dirs

is_dir(dirs, p) == p \in dirs

RECURSIVE join(_, _)
join(texts, sep) ==
    IF texts = <<>> THEN <<>>
    ELSE IF Len(texts) = 1 THEN texts[1]
    ELSE texts[1] \o sep \o join(Tail(texts), sep)

non_newline_count(text) ==
    Len(SelectSeq(text, LAMBDA c : c # "\n"))

Autocorrection(description, fix_type, confidence, details, commands, code) ==
    [description |-> description, fix_type |-> fix_type,
     confidence |-> confidence, details |-> details,
     diff_suggestion |-> None, commands_to_apply |-> commands,
     targets_error_code |-> code]

TextReplace(file_path, line_start, column_start, line_end, column_end, original_text_snippet, replacement_text) ==
    [kind |-> "TextReplace", file_path |-> file_path,
     line_start |-> line_start, column_start |-> column_start,
     line_end |-> line_end, column_end |-> column_end,
     original_text_snippet |-> original_text_snippet,
     replacement_text |-> replacement_text]

ExecuteCommand(command, args) ==
    [kind |-> "ExecuteCommand", command |-> command, args |-> args,
     working_directory |-> None]

SuggestCodeChange(file_path, line_hint, suggested_code_snippet, explanation) ==
    [kind |-> "SuggestCodeChange", file_path |-> file_path,
     line_hint |-> line_hint,
     suggested_code_snippet |-> suggested_code_snippet,
     explanation |-> explanation]

mkdir_command(p) == <<"mkdir -p \"">> \o p \o <<"\"">>

touch_command(p) == <<"touch \"">> \o p \o <<"\"">>

create_file_commands_unchecked(dirs, p) ==
    (IF IsSome(parent(p)) THEN <<mkdir_command(Unwrap(parent(p)))>> ELSE <<>>)
    \o <<touch_command(p)>>

(* The commands that create a file: its parent directory first when the
   path names one that does not exist. *)
create_file_commands(dirs, p) ==
    LET par == parent(p)
    IN  (IF IsSome(par) /\ Unwrap(par) # <<>> /\ ~exists(dirs, Unwrap(par))
         THEN <<mkdir_command(Unwrap(par))>>
         ELSE <<>>)
        \o <<touch_command(p)>>

text_replace_column_end_unclamped(column, text) ==
    column + non_newline_count(text)

text_replace_column_end(column, text) ==
    column + (IF non_newline_count(text) >= 1 THEN non_newline_count(text) ELSE 1)

(* Priority 1: the fixes a diagnostic tool attached to the error *)
diagnostic_fix(diag_info) ==
    LET primary_fix_text == join(diag_info.suggested_fixes, <<"\n">>)
        loc == Unwrap(diag_info.primary_location)
        details ==
            IF IsSome(diag_info.primary_location)
            THEN Some(TextReplace(loc.file, loc.line, loc.column, loc.line,
                                  text_replace_column_end(loc.column, primary_fix_text),
                                  diag_info.original_message, primary_fix_text))
            ELSE None
    IN  Autocorrection(Text("Apply fix suggested by diagnostic tool."),
                       "TextReplacement", 85, details, <<>>,
                       diag_info.diagnostic_code)

not_found_description(resource_type, identifier) ==
    <<"Resource type '">> \o resource_type \o <<"' with identifier '">>
    \o identifier
    \o <<"' not found. Consider creating it if it's a file/directory, or verify the path/name.">>

(* Priority 2, category NotFound *)
not_found_fix(e, dirs) ==
    LET is_not_found == e.variant = "NotFound"
        resource_type == IF is_not_found THEN Unwrap(e.fields[1])
                         ELSE Text("unknown resource")
        identifier == IF is_not_found THEN Unwrap(e.fields[2])
                      ELSE Text("unknown identifier")
        creatable == resource_type \in {Text("file"), Text("path")}
        commands == IF creatable THEN create_file_commands(dirs, identifier)
                    ELSE <<>>
        details == IF creatable
                   THEN Some(ExecuteCommand(Head(commands), Tail(commands)))
                   ELSE None
    IN  Autocorrection(not_found_description(resource_type, identifier),
                       IF commands = <<>> THEN "ManualInterventionRequired"
                       ELSE "ExecuteCommand",
                       70, details, commands, Some(Text("NotFound")))

(* Priority 2, category Io *)
io_fix(e, dirs) ==
    LET is_io == e.variant = "Io"
        source_msg == IF is_io THEN Unwrap(e.source).display
                      ELSE Text("Unknown I/O error")
        path_opt == IF is_io THEN e.fields[1] ELSE None
        io_kind_opt == IF is_io THEN Some(Unwrap(e.source).kind) ELSE None
        path_str == IF IsSome(path_opt) THEN Unwrap(path_opt)
                    ELSE Text("<unknown_path>")
        op_str == IF is_io THEN Unwrap(e.fields[2]) ELSE Text("<unknown_op>")
        p == Unwrap(path_opt)
        not_found == io_kind_opt = Some("NotFound")
        denied == io_kind_opt = Some("PermissionDenied")
        details ==
            IF not_found /\ IsSome(path_opt)
            THEN Some(SuggestCodeChange(p, 0,
                     <<"// Ensure path '">> \o p \o <<"' exists before operation '">>
                     \o op_str \o <<"'\n// Or handle the NotFound error gracefully.">>,
                     Text("The file or directory specified in the operation was not found at the given path.")))
            ELSE IF denied
            THEN Some(SuggestCodeChange(
                     IF IsSome(path_opt) THEN p
                     ELSE Text("unknown_file_causing_permission_error"),
                     0,
                     <<"// Check permissions for path '">> \o path_str
                     \o <<"' for operation '">> \o op_str \o <<"'">>,
                     Text("The application does not have the necessary permissions to perform the I/O operation.")))
            ELSE None
        commands ==
            IF not_found /\ IsSome(path_opt)
            THEN IF is_dir(dirs, p) \/ ~IsSome(extension(p))
                 THEN <<mkdir_command(p)>>
                 ELSE create_file_commands(dirs, p)
            ELSE <<>>
        fix_type == IF not_found THEN "ExecuteCommand"
                    ELSE IF denied THEN "ConfigurationChange"
                    ELSE "Information"
    IN  Autocorrection(<<"I/O error during '">> \o op_str \o <<"' on path '">>
                       \o path_str \o <<"': ">> \o source_msg
                       \o <<". Verify path, permissions, or disk space.">>,
                       fix_type, 65, details, commands, Some(Text("Io")))

(* Priority 2, category Configuration *)
config_fix(e) ==
    LET is_config == e.variant = "Config"
        message == IF is_config THEN Unwrap(e.fields[1])
                   ELSE Text("Unknown configuration error")
        path_opt == IF is_config THEN e.fields[2] ELSE None
        target_file == IF IsSome(path_opt) THEN Unwrap(path_opt)
                       ELSE Text("config.toml")
    IN  Autocorrection(<<"Configuration issue for path '">>
                       \o (IF IsSome(path_opt) THEN Unwrap(path_opt)
                           ELSE Text("<unknown_config>"))
                       \o <<"': ">> \o message
                       \o <<". Please review the configuration file structure and values.">>,
                       "ConfigurationChange", 70,
                       Some(SuggestCodeChange(target_file, 1,
                            <<"# Review this configuration file for error related to: ">>
                            \o message
                            \o <<"\n# Ensure all values are correctly formatted and all required fields are present.">>,
                            Text("Configuration files require specific syntax, valid values, and all mandatory fields to be present."))),
                       <<>>, Some(Text("Configuration")))

suggest_autocorrection(e, dirs) ==
    LET diag_info == get_diagnostic_info(e)
    IN  IF IsSome(diag_info) /\ Unwrap(diag_info).suggested_fixes # <<>>
        THEN Some(diagnostic_fix(Unwrap(diag_info)))
        ELSE CASE category(e) = "NotFound" -> Some(not_found_fix(e, dirs))
               [] category(e) = "Io" -> Some(io_fix(e, dirs))
               [] category(e) = "Configuration" -> Some(config_fix(e))
               [] OTHER -> None

----------------------------------------------------------------------------
(* The errors, contexts and directories the error model is run on *)

FileSystems ==
    {{}, {<<"/", "tmp", "missing">>, <<"/", "tmp", "dir">>}}

BaseErrors ==
    LET Paths == {<<"/", "tmp", "missing", "file", ".txt">>,
                  <<"file", ".txt">>,
                  <<"/", "tmp", "dir">>}
        IoSources == {IoError(k, Text("disk failure")) : k \in ErrorKinds}
        OptionalSources == {None, Some(CustomError(Text("bad input")))}
    IN  {Io(s, p, Text("read")) : s \in IoSources,
                                  p \in {None} \cup {Some(q) : q \in Paths}}
        \cup {NotFound(Text(rt), id) : rt \in {"file", "path", "user"},
                                       id \in Paths \cup {<<"/">>}}
        \cup {Config(Text("missing key"), p, s) :
                  p \in {None, Some(<<"app", ".txt">>)}, s \in OptionalSources}
        \cup {Internal(Text("invariant broken"), s) : s \in OptionalSources}
        \cup {Concurrency(Text("lock poisoned"), s) : s \in OptionalSources}
        \cup {ExternalService(Text("billing"), Text("unavailable"), s) :
                  s \in OptionalSources}
        \cup {Whatever(Text("something failed"), s) : s \in OptionalSources}
        \cup {CircuitBreakerOpen(Text("db"), r) : r \in {None, Some(Text("100ms"))}}
        \cup {Parse(CustomError(Text("unexpected token")), Text("json"), Text("line 3")),
              Network(IoError("Other", Text("connection reset")),
                      Some(Text("https://example.org")), Text("http")),
              Network(CustomError(Text("dns failure")), None, Text("dns")),
              Validation(Text("age"), Text("must be positive")),
              Timeout(Text("query"), Text("30s")),
              ResourceExhausted(Text("memory"), Text("512"), Text("600")),
              StateConflict(Text("already started")),
              MissingValue(Text("user id")),
              MultipleErrors(<<Parse(CustomError(Text("unexpected token")),
                                     Text("json"), Text("line 3")),
                               NotFound(Text("file"), <<"file", ".txt">>)>>),
              MultipleErrors(<<>>)}

DiagnosticContexts ==
    LET Diagnostics ==
            {DiagnosticResult(Some(ErrorLocation(<<"src", "main.rs">>, 42, 10)),
                              <<<<"r", "e", "t">>, <<"a", "\n", "b">>>>,
                              Some(Text("Missing semicolon")), Some(Text("E0277"))),
             DiagnosticResult(None, <<<<"r", "e", "t">>>>, None, None),
             DiagnosticResult(Some(ErrorLocation(<<"src", "lib.rs">>, 7, 1)),
                              <<<<>>>>, None, None),
             DiagnosticResult(Some(ErrorLocation(<<"src", "lib.rs">>, 7, 1)),
                              <<>>, Some(Text("Unused import")), Some(Text("W0001")))}
    IN  {with_diagnostic_info(ErrorContext_new(Text("Syntax error")), d) :
             d \in Diagnostics}

InitError(errors, filesystems) ==
    /\ error \in errors
    /\ base = error
    /\ stack = <<>>
    /\ fs \in filesystems
    /\ copy = None
    /\ suggestion = None

----------------------------------------------------------------------------
NoNotification == [kind |-> "", arg |-> ""]

NothingSeen == [state_change |-> 0, attempt |-> 0, result |-> 0, reset |-> 0]

InitObservers(obs) ==
    /\ observers = obs
    /\ obs_mutex = "free"
    /\ pending = [a \in Callers |-> <<>>]
    /\ seen = NothingSeen
    /\ last_seen = NoNotification
    /\ resets = 0
    /\ manual_ret = NoRet

InitBreaker(cfgs, obs) ==
    /\ InitObservers(obs)
    /\ config \in cfgs
    /\ inner = DefaultInner
    /\ lock = "free"
    /\ now = 0
    /\ pc = [t \in Threads |-> "idle"]
    /\ start_time = [t \in Threads |-> 0]
    /\ op_start = [t \in Threads |-> 0]
    /\ duration = [t \in Threads |-> 0]
    /\ result = [t \in Threads |-> NoResult]
    /\ ret = [t \in Threads |-> NoRet]
    /\ last_event = NoEvent
    /\ calls = 0
    /\ manual = 0
    /\ failRun = 0
    /\ hoRun = -1
    /\ solo = 0
    /\ seqRun = 0
    /\ snap = None
    /\ probeOk = 0

Init ==
    /\ InitObservers(<<>>)
    /\ config \in Configs
    /\ inner = DefaultInner
    /\ lock = "free"
    /\ now = 0
    /\ pc = [t \in Threads |-> "idle"]
    /\ start_time = [t \in Threads |-> 0]
    /\ op_start = [t \in Threads |-> 0]
    /\ duration = [t \in Threads |-> 0]
    /\ result = [t \in Threads |-> NoResult]
    /\ ret = [t \in Threads |-> NoRet]
    /\ last_event = NoEvent
    /\ calls = 0
    /\ manual = 0
    /\ failRun = 0
    /\ hoRun = -1
    /\ solo = 0
    /\ seqRun = 0
    /\ snap = None
    /\ probeOk = 0
    /\ InitError({MissingValue(Text("error"))}, {{}})

OthersIdle(t) == \A u \in Threads \ {t} : pc[u] = "idle"

(* A step of caller t inside its call, to position p *)
Goto(t, p) ==
    /\ pc' = [pc EXCEPT ![t] = p]
    /\ UNCHANGED <<ret, calls, manual, failRun, solo, seqRun, snap>>

(* execute() returns r to caller t.  `result` keeps what the call last held
   as its result until the caller's next call. *)
Finish(t, r) ==
    /\ pc' = [pc EXCEPT ![t] = "idle"]
    /\ ret' = [ret EXCEPT ![t] = r]
    /\ start_time' = [start_time EXCEPT ![t] = 0]
    /\ op_start' = [op_start EXCEPT ![t] = 0]
    /\ duration' = [duration EXCEPT ![t] = 0]
    /\ failRun' = IF failRun >= 0 /\ Len(r) = 2 /\ r[1] = "Err" /\ r[2] \in OpErrors
                    THEN failRun + 1 ELSE -1
    /\ hoRun' = IF hoRun >= 0 /\ r = RetOk THEN hoRun + 1 ELSE -1
    /\ solo' = IF solo = t THEN 0 ELSE solo
    /\ seqRun' = IF seqRun >= 0 /\ r # RetPanic THEN seqRun + 1 ELSE -1
    /\ snap' = None
    /\ UNCHANGED <<calls, manual>>

(* The clock advances *)
Tick ==
    /\ now < MaxTime
    /\ now' = now + 1
    /\ UNCHANGED <<config, inner, lock, pc, start_time, op_start, duration, result,
                   ret, last_event, calls, manual, failRun, hoRun, solo,
                   seqRun, snap>>

(* trip() *)
Trip ==
    /\ lock = "free"
    /\ manual < MaxManual
    /\ manual' = manual + 1
    /\ inner' = trip(inner, config, now)
    /\ last_event' = TransitionEvent(inner.state, Open, "Manual trip")
    /\ failRun' = -1
    /\ hoRun' = -1
    /\ solo' = 0
    /\ seqRun' = -1
    /\ snap' = None
    /\ UNCHANGED <<config, lock, now, pc, start_time, op_start, duration, result,
                   ret, calls>>

(* reset() *)
Reset ==
    /\ lock = "free"
    /\ manual < MaxManual
    /\ manual' = manual + 1
    /\ inner' = reset(inner, now)
    /\ last_event' = TransitionEvent(inner.state, Closed, "Manual reset")
    /\ failRun' = -1
    /\ hoRun' = -1
    /\ solo' = 0
    /\ seqRun' = -1
    /\ snap' = None
    /\ UNCHANGED <<config, lock, now, pc, start_time, op_start, duration, result,
                   ret, calls>>

(* execute(): start_time, the state sample and the dispatch on it *)
Begin(t) ==
    /\ pc[t] = "idle"
    /\ calls < MaxCalls
    /\ lock = "free"
    /\ calls' = calls + 1
    /\ start_time' = [start_time EXCEPT ![t] = StartTime(config, now)]
    /\ pc' = [pc EXCEPT ![t] =
                CASE inner.state = Open -> "open_check"
                  [] inner.state = HalfOpen -> "half_open_gate"
                  [] inner.state = Closed -> "closed_op"]
    /\ op_start' = [op_start EXCEPT ![t] =
                IF inner.state = Closed /\ IsSome(config.operation_timeout)
                    THEN now ELSE 0]
    /\ ret' = [ret EXCEPT ![t] = NoRet]
    /\ result' = [result EXCEPT ![t] = NoResult]
    /\ failRun' = IF OthersIdle(t) THEN failRun ELSE -1
    /\ hoRun' = IF OthersIdle(t) THEN hoRun ELSE -1
    /\ solo' = IF OthersIdle(t) /\ inner.state = Open /\ IsSome(inner.opened_at)
                  /\ now - Unwrap(inner.opened_at) >= config.reset_timeout
                 THEN t ELSE 0
    /\ seqRun' = IF OthersIdle(t) THEN seqRun ELSE -1
    /\ snap' = IF OthersIdle(t) THEN Some(inner) ELSE None
    /\ UNCHANGED <<config, inner, lock, now, duration, last_event, manual>>

(* execute(), Open: read opened_at and decide *)
OpenCheck(t) ==
    /\ pc[t] = "open_check"
    /\ lock = "free"
    /\ Goto(t, IF should_transition(inner, config, now)
                 THEN "to_half_open" ELSE "open_reject")
    /\ UNCHANGED <<config, inner, lock, now, start_time, op_start, duration, result,
                   last_event, hoRun>>

(* execute(), Open: transition_to_half_open("Reset timeout elapsed") *)
OpenToHalfOpen(t) ==
    /\ pc[t] = "to_half_open"
    /\ lock = "free"
    /\ inner' = transition_to_half_open(inner, now)
    /\ last_event' = TransitionEvent(inner.state, HalfOpen, "Reset timeout elapsed")
    /\ hoRun' = IF OthersIdle(t) THEN 0 ELSE -1
    /\ Goto(t, "half_open_gate")
    /\ UNCHANGED <<config, lock, now, start_time, op_start, duration, result>>

(* execute(), Open: record_rejected() *)
OpenReject(t) ==
    /\ pc[t] = "open_reject"
    /\ lock = "free"
    /\ inner' = record_rejected(inner)
    /\ Goto(t, "open_retry_after")
    /\ UNCHANGED <<config, lock, now, start_time, op_start, duration, result,
                   last_event, hoRun>>

(* execute(), Open: build the error; opened_at.unwrap() panics on None *)
OpenRetryAfter(t) ==
    /\ pc[t] = "open_retry_after"
    /\ lock = "free"
    /\ Finish(t, IF IsSome(inner.opened_at)
                   THEN RetOpen(retry_after(inner, config, now))
                   ELSE RetPanic)
    /\ UNCHANGED <<config, inner, lock, now, result, last_event>>

(* May the operation still return its own result, or has recv_timeout /
   the elapsed-time check given up on it *)
returns_in_time(c, started, t) ==
    IF IsSome(c.operation_timeout)
        THEN t - started <= Unwrap(c.operation_timeout)
        ELSE TRUE

times_out(c, started, t) ==
    IF IsSome(c.operation_timeout)
        THEN t - started >= Unwrap(c.operation_timeout)
        ELSE FALSE

(* Mutant: a failed probe reopens only when the Closed rules say so *)
probe_failure_opens_by_rule(s, c) == should_open_circuit(s, c)


(* execute_half_open: a counted failure of a probe always reopens *)
probe_failure_opens(s, c) == TRUE

(* execute_half_open: the admission gate.  When the probe count is at its
   maximum the code calls record_rejected() with the write guard still
   held: write() on a lock the thread already holds blocks forever or
   panics (and the panic poisons the lock). *)
HalfOpenGate(t) ==
    /\ pc[t] = "half_open_gate"
    /\ lock = "free"
    /\ IF half_open_saturated(inner, config)
         THEN \/ /\ lock' = "deadlocked"
                 /\ Goto(t, "deadlocked")
                 /\ UNCHANGED <<inner, start_time, op_start, duration, result, hoRun>>
              \/ /\ lock' = "poisoned"
                 /\ Finish(t, RetPanic)
                 /\ UNCHANGED <<inner, result>>
         ELSE /\ inner' = admit_probe(inner)
              /\ op_start' = [op_start EXCEPT ![t] =
                    IF IsSome(config.operation_timeout) THEN now ELSE 0]
              /\ Goto(t, "half_open_op")
              /\ UNCHANGED <<lock, start_time, duration, result, hoRun>>
    /\ UNCHANGED <<config, now, last_event>>

(* execute_closed: the match on the operation's result r, taken d after start_time *)
ClosedMatch(t, r, d) ==
    IF r = "Ok"
      THEN /\ inner' = record_success(inner, config, d)
           /\ result' = [result EXCEPT ![t] = r]
           /\ Finish(t, RetOk)
      ELSE IF should_count_as_failure(config, r)
             THEN /\ inner' = record_failure(inner, config, d, now)
                  /\ result' = [result EXCEPT ![t] = r]
                  /\ Goto(t, "closed_check_open")
                  /\ UNCHANGED <<start_time, op_start, duration, hoRun>>
             ELSE /\ inner' = record_success(inner, config, d)
                  /\ result' = [result EXCEPT ![t] = r]
                  /\ Finish(t, RetErr(r))

(* execute_closed: the operation returns r and the outcome is recorded *)
ClosedOpReturns(t, r) ==
    /\ pc[t] = "closed_op"
    /\ lock = "free"
    /\ returns_in_time(config, op_start[t], now)
    /\ ClosedMatch(t, r, StartTime(config, now) - start_time[t])
    /\ UNCHANGED <<config, lock, now, last_event>>

(* execute_with_timeout under execute_closed: record_timeout() *)
ClosedTimeout(t) ==
    /\ pc[t] = "closed_op"
    /\ lock = "free"
    /\ times_out(config, op_start[t], now)
    /\ inner' = record_timeout(inner, config, now)
    /\ result' = [result EXCEPT ![t] = TimeoutError]
    /\ duration' = [duration EXCEPT ![t] = StartTime(config, now) - start_time[t]]
    /\ Goto(t, "closed_result")
    /\ UNCHANGED <<config, lock, now, start_time, op_start, last_event, hoRun>>

(* execute_closed: the match on the Timeout error execute_with_timeout returned *)
ClosedResult(t) ==
    /\ pc[t] = "closed_result"
    /\ lock = "free"
    /\ ClosedMatch(t, result[t], duration[t])
    /\ UNCHANGED <<config, lock, now, last_event>>

(* execute_closed: should_open_circuit() *)
ClosedCheckOpen(t) ==
    /\ pc[t] = "closed_check_open"
    /\ lock = "free"
    /\ IF should_open_circuit(inner, config)
         THEN /\ Goto(t, "closed_to_open")
              /\ UNCHANGED <<start_time, op_start, duration, result, hoRun>>
         ELSE /\ Finish(t, RetErr(result[t]))
              /\ UNCHANGED result
    /\ UNCHANGED <<config, inner, lock, now, last_event>>

(* execute_closed: transition_to_open("Failure threshold reached") *)
ClosedToOpen(t) ==
    /\ pc[t] = "closed_to_open"
    /\ lock = "free"
    /\ inner' = transition_to_open(inner, now)
    /\ last_event' = TransitionEvent(inner.state, Open, "Failure threshold reached")
    /\ Finish(t, RetErr(result[t]))
    /\ UNCHANGED <<config, lock, now, result>>

(* execute_half_open: the operation returns r; the probe count is decremented *)
HalfOpenOpReturns(t, r) ==
    /\ pc[t] = "half_open_op"
    /\ lock = "free"
    /\ returns_in_time(config, op_start[t], now)
    /\ inner' = decrement_probe(inner)
    /\ result' = [result EXCEPT ![t] = r]
    /\ duration' = [duration EXCEPT ![t] = StartTime(config, now) - start_time[t]]
    /\ Goto(t, "half_open_result")
    /\ UNCHANGED <<config, lock, now, start_time, op_start, last_event, hoRun>>

(* execute_with_timeout under execute_half_open: record_timeout() *)
HalfOpenTimeout(t) ==
    /\ pc[t] = "half_open_op"
    /\ lock = "free"
    /\ times_out(config, op_start[t], now)
    /\ inner' = record_timeout(inner, config, now)
    /\ result' = [result EXCEPT ![t] = TimeoutError]
    /\ duration' = [duration EXCEPT ![t] = StartTime(config, now) - start_time[t]]
    /\ Goto(t, "half_open_decrement")
    /\ UNCHANGED <<config, lock, now, start_time, op_start, last_event, hoRun>>

(* execute_half_open: the decrement after a timed-out probe *)
HalfOpenDecrement(t) ==
    /\ pc[t] = "half_open_decrement"
    /\ lock = "free"
    /\ inner' = decrement_probe(inner)
    /\ Goto(t, "half_open_result")
    /\ UNCHANGED <<config, lock, now, start_time, op_start, duration, result,
                   last_event, hoRun>>

(* execute_half_open: the match on the probe's result *)
HalfOpenResult(t) ==
    /\ pc[t] = "half_open_result"
    /\ lock = "free"
    /\ IF result[t] = "Ok"
         THEN /\ inner' = record_success(inner, config, duration[t])
              /\ Goto(t, "half_open_check_close")
              /\ UNCHANGED <<start_time, op_start, duration, result, hoRun>>
         ELSE IF should_count_as_failure(config, result[t])
                THEN /\ inner' = record_failure(inner, config, duration[t], now)
                     /\ IF probe_failure_opens(inner', config)
                          THEN /\ Goto(t, "half_open_to_open")
                               /\ UNCHANGED <<start_time, op_start, duration,
                                              result, hoRun>>
                          ELSE /\ Finish(t, RetErr(result[t]))
                               /\ UNCHANGED result
                ELSE /\ inner' = record_success(inner, config, duration[t])
                     /\ Finish(t, RetErr(result[t]))
                     /\ UNCHANGED result
    /\ UNCHANGED <<config, lock, now, last_event>>

(* execute_half_open: read consecutive_successes against the threshold *)
HalfOpenCheckClose(t) ==
    /\ pc[t] = "half_open_check_close"
    /\ lock = "free"
    /\ IF close_circuit(inner, config)
         THEN /\ Goto(t, "half_open_to_closed")
              /\ UNCHANGED <<start_time, op_start, duration, result, hoRun>>
         ELSE /\ Finish(t, RetOk)
              /\ UNCHANGED result
    /\ UNCHANGED <<config, inner, lock, now, last_event>>

(* execute_half_open: transition_to_closed("Success threshold reached") *)
HalfOpenToClosed(t) ==
    /\ pc[t] = "half_open_to_closed"
    /\ lock = "free"
    /\ inner' = transition_to_closed(inner, now)
    /\ last_event' = TransitionEvent(inner.state, Closed, "Success threshold reached")
    /\ Finish(t, RetOk)
    /\ UNCHANGED <<config, lock, now, result>>

(* execute_half_open: transition_to_open("Failure in half-open state") *)
HalfOpenToOpen(t) ==
    /\ pc[t] = "half_open_to_open"
    /\ lock = "free"
    /\ inner' = transition_to_open(inner, now)
    /\ last_event' = TransitionEvent(inner.state, Open, "Failure in half-open state")
    /\ Finish(t, RetErr(result[t]))
    /\ UNCHANGED <<config, lock, now, result>>

(* Once a panic under the write guard has poisoned the lock, every
   read().unwrap() and write().unwrap() panics: a new call at state() *)
PoisonedBegin(t) ==
    /\ lock = "poisoned"
    /\ pc[t] = "idle"
    /\ calls < MaxCalls
    /\ calls' = calls + 1
    /\ ret' = [ret EXCEPT ![t] = RetPanic]
    /\ failRun' = -1
    /\ hoRun' = -1
    /\ solo' = 0
    /\ seqRun' = -1
    /\ snap' = None
    /\ UNCHANGED <<config, inner, lock, now, pc, start_time, op_start, duration,
                   result, last_event, manual>>

(* ... and a call under way at its next acquisition *)
PoisonedStep(t) ==
    /\ lock = "poisoned"
    /\ pc[t] \notin {"idle", "deadlocked"}
    /\ Finish(t, RetPanic)
    /\ UNCHANGED <<config, inner, lock, now, result, last_event>>

(* History: a probe's own success is recorded by record_success in the
   Ok arm of execute_half_open *)
ProbeRecorded(t) ==
    probeOk' = IF result[t] = "Ok" THEN probeOk + 1 ELSE probeOk

Next ==
    \/ Tick /\ UNCHANGED <<obsVars, errVars, probeOk>>
    \/ Trip /\ UNCHANGED <<obsVars, errVars, probeOk>>
    \/ Reset /\ UNCHANGED <<obsVars, errVars, probeOk>>
    \/ \E t \in Threads : Begin(t) /\ UNCHANGED <<obsVars, errVars, probeOk>>
    \/ \E t \in Threads : OpenCheck(t) /\ UNCHANGED <<obsVars, errVars, probeOk>>
    \/ \E t \in Threads : OpenToHalfOpen(t) /\ probeOk' = 0 /\ UNCHANGED <<obsVars, errVars>>
    \/ \E t \in Threads : OpenReject(t) /\ UNCHANGED <<obsVars, errVars, probeOk>>
    \/ \E t \in Threads : OpenRetryAfter(t) /\ UNCHANGED <<obsVars, errVars, probeOk>>
    \/ \E t \in Threads : HalfOpenGate(t) /\ UNCHANGED <<obsVars, errVars, probeOk>>
    \/ \E t \in Threads : \E r \in OpResults(config) : ClosedOpReturns(t, r) /\ UNCHANGED <<obsVars, errVars, probeOk>>
    \/ \E t \in Threads : ClosedTimeout(t) /\ UNCHANGED <<obsVars, errVars, probeOk>>
    \/ \E t \in Threads : ClosedResult(t) /\ UNCHANGED <<obsVars, errVars, probeOk>>
    \/ \E t \in Threads : ClosedCheckOpen(t) /\ UNCHANGED <<obsVars, errVars, probeOk>>
    \/ \E t \in Threads : ClosedToOpen(t) /\ UNCHANGED <<obsVars, errVars, probeOk>>
    \/ \E t \in Threads : \E r \in OpResults(config) : HalfOpenOpReturns(t, r) /\ UNCHANGED <<obsVars, errVars, probeOk>>
    \/ \E t \in Threads : HalfOpenTimeout(t) /\ UNCHANGED <<obsVars, errVars, probeOk>>
    \/ \E t \in Threads : HalfOpenDecrement(t) /\ UNCHANGED <<obsVars, errVars, probeOk>>
    \/ \E t \in Threads : HalfOpenResult(t) /\ ProbeRecorded(t) /\ UNCHANGED <<obsVars, errVars>>
    \/ \E t \in Threads : HalfOpenCheckClose(t) /\ UNCHANGED <<obsVars, errVars, probeOk>>
    \/ \E t \in Threads : HalfOpenToClosed(t) /\ UNCHANGED <<obsVars, errVars, probeOk>>
    \/ \E t \in Threads : HalfOpenToOpen(t) /\ UNCHANGED <<obsVars, errVars, probeOk>>
    \/ \E t \in Threads : PoisonedBegin(t) /\ UNCHANGED <<obsVars, errVars, probeOk>>
    \/ \E t \in Threads : PoisonedStep(t) /\ UNCHANGED <<obsVars, errVars, probeOk>>

(* With no observer registered every notify_* call locks the observer
   list, finds it empty and returns: the observer side never changes. *)
Spec == Init /\ [][Next]_vars

----------------------------------------------------------------------------
(* The breaker with an observer registered.  Each notify_* call is a step of
   its own, made by the caller after the critical section that precedes it
   in the code: the caller takes the observer mutex, calls the callback of
   every observer, and goes on only then. *)

MaxObsManual == 2
MaxObsCalls == 2

(* Observers: one that counts its callbacks, one whose callbacks panic *)
ObserverKinds == {"counting", "panicking"}

(* The four callbacks of CircuitBreakerObserver *)
StateChangeNote(event) == [kind |-> "state_change", arg |-> event]
AttemptNote(state) == [kind |-> "attempt", arg |-> state]
ResultNote(op_type) == [kind |-> "result", arg |-> op_type]
ResetNote == [kind |-> "reset", arg |-> ""]

(* A panic that comes out of a notification: the observer's own, and the
   one of lock().unwrap() on the poisoned observer mutex *)
RetObserverPanic == <<"Panic", "observer">>
RetMutexPoisoned == <<"Panic", "observer mutex poisoned">>

(* trip(): notify_state_change(&event) *)
trip_notifications(event) == <<StateChangeNote(event)>>

\* Mutant: reset() leaves out notify_reset()
reset_notifications_without_reset(event) == <<StateChangeNote(event)>>

(* reset(): notify_state_change(&event); notify_reset() *)
reset_notifications(event) == <<StateChangeNote(event), ResetNote>>

\* Mutant: the rejection at the saturated gate reaches its notification
saturated_gate_notifications_sent(s) == <<ResultNote("Rejected")>>

(* execute_half_open, gate saturated: record_rejected() is entered with the
   write guard held and never gets past its own write(), so its
   notify_operation_result is not reached *)
saturated_gate_notifications(s) == <<>>

(* The notification record_success / record_failure make for result r *)
result_notification(c, r) ==
    IF r = "Ok" THEN ResultNote("Success")
    ELSE IF should_count_as_failure(c, r) THEN ResultNote("Failure")
    ELSE ResultNote("Success")

NoPending(a) == pending[a] = <<>>

(* Caller a has the notifications ns to make next *)
Post(a, ns) ==
    /\ pending' = [pending EXCEPT ![a] = ns]
    /\ UNCHANGED <<observers, obs_mutex, seen, last_seen, resets, manual_ret>>

(* Configurations of the breaker that is observed *)
ObsConfigs ==
    {[BaseConfig EXCEPT !.failure_threshold = 1,
                        !.operation_timeout = Some(OpTimeout)]}

InitObs ==
    /\ \E k \in ObserverKinds : InitObservers(<<k>>)
    /\ config \in ObsConfigs
    /\ inner = DefaultInner
    /\ lock = "free"
    /\ now = 0
    /\ pc = [t \in Threads |-> "idle"]
    /\ start_time = [t \in Threads |-> 0]
    /\ op_start = [t \in Threads |-> 0]
    /\ duration = [t \in Threads |-> 0]
    /\ result = [t \in Threads |-> NoResult]
    /\ ret = [t \in Threads |-> NoRet]
    /\ last_event = NoEvent
    /\ calls = 0
    /\ manual = 0
    /\ failRun = 0
    /\ hoRun = -1
    /\ solo = 0
    /\ seqRun = 0
    /\ snap = None
    /\ probeOk = 0
    /\ InitError({MissingValue(Text("error"))}, {{}})

(* trip() up to drop(inner) *)
ObsTrip ==
    /\ NoPending(0)
    /\ lock = "free"
    /\ manual < MaxObsManual
    /\ manual' = manual + 1
    /\ inner' = trip(inner, config, now)
    /\ last_event' = TransitionEvent(inner.state, Open, "Manual trip")
    /\ failRun' = -1
    /\ hoRun' = -1
    /\ solo' = 0
    /\ seqRun' = -1
    /\ snap' = None
    /\ pending' = [pending EXCEPT ![0] = trip_notifications(last_event')]
    /\ manual_ret' = NoRet
    /\ UNCHANGED <<config, lock, now, pc, start_time, op_start, duration, result,
                   ret, calls, observers, obs_mutex, seen, last_seen, resets>>

(* reset() up to drop(inner) *)
ObsReset ==
    /\ NoPending(0)
    /\ lock = "free"
    /\ manual < MaxObsManual
    /\ manual' = manual + 1
    /\ resets' = resets + 1
    /\ inner' = reset(inner, now)
    /\ last_event' = TransitionEvent(inner.state, Closed, "Manual reset")
    /\ failRun' = -1
    /\ hoRun' = -1
    /\ solo' = 0
    /\ seqRun' = -1
    /\ snap' = None
    /\ pending' = [pending EXCEPT ![0] = reset_notifications(last_event')]
    /\ manual_ret' = NoRet
    /\ UNCHANGED <<config, lock, now, pc, start_time, op_start, duration, result,
                   ret, calls, observers, obs_mutex, seen, last_seen>>

(* notify_*: the mutex is free and no callback panics *)
Notify(a) ==
    /\ pending[a] # <<>>
    /\ obs_mutex = "free"
    /\ \A i \in 1..Len(observers) : observers[i] = "counting"
    /\ seen' = [seen EXCEPT ![Head(pending[a]).kind] = @ + Len(observers)]
    /\ last_seen' = IF observers = <<>> THEN last_seen ELSE Head(pending[a])
    /\ pending' = [pending EXCEPT ![a] = Tail(@)]
    /\ UNCHANGED <<config, inner, lock, now, pc, start_time, op_start, duration,
                   result, ret, last_event, calls, manual, failRun, hoRun, solo,
                   seqRun, snap, observers, obs_mutex, resets, manual_ret>>

(* The panic of a notification unwinds the call of caller a *)
NotifyUnwinds(a, why) ==
    /\ pending' = [pending EXCEPT ![a] = <<>>]
    /\ IF a = 0
         THEN /\ manual_ret' = why
              /\ UNCHANGED <<pc, ret, start_time, op_start, duration>>
         ELSE /\ pc' = [pc EXCEPT ![a] = "idle"]
              /\ ret' = [ret EXCEPT ![a] = why]
              /\ start_time' = [start_time EXCEPT ![a] = 0]
              /\ op_start' = [op_start EXCEPT ![a] = 0]
              /\ duration' = [duration EXCEPT ![a] = 0]
              /\ UNCHANGED manual_ret
    /\ failRun' = -1
    /\ hoRun' = -1
    /\ solo' = 0
    /\ seqRun' = -1
    /\ snap' = None
    /\ UNCHANGED <<config, inner, lock, now, result, last_event, calls, manual,
                   observers, seen, last_seen, resets>>

(* notify_*: a callback panics while the observer mutex is held, which
   poisons the mutex *)
NotifyObserverPanics(a) ==
    /\ pending[a] # <<>>
    /\ obs_mutex = "free"
    /\ \E i \in 1..Len(observers) : observers[i] = "panicking"
    /\ obs_mutex' = "poisoned"
    /\ NotifyUnwinds(a, RetObserverPanic)

(* notify_*: observers.lock().unwrap() on the poisoned mutex *)
NotifyMutexPoisoned(a) ==
    /\ pending[a] # <<>>
    /\ obs_mutex = "poisoned"
    /\ UNCHANGED obs_mutex
    /\ NotifyUnwinds(a, RetMutexPoisoned)

(* The steps of execute(), each followed by the notification the code makes
   after it *)
ObsTick == Tick /\ UNCHANGED obsVars

ObsBegin(t) ==
    /\ NoPending(t)
    /\ calls < MaxObsCalls
    /\ Begin(t)
    /\ Post(t, <<AttemptNote(inner.state)>>)

ObsOpenCheck(t) == NoPending(t) /\ OpenCheck(t) /\ UNCHANGED obsVars

ObsOpenToHalfOpen(t) ==
    NoPending(t) /\ OpenToHalfOpen(t) /\ Post(t, <<StateChangeNote(last_event')>>)

ObsOpenReject(t) == NoPending(t) /\ OpenReject(t) /\ Post(t, <<ResultNote("Rejected")>>)

ObsOpenRetryAfter(t) == NoPending(t) /\ OpenRetryAfter(t) /\ UNCHANGED obsVars

ObsHalfOpenGate(t) ==
    /\ NoPending(t)
    /\ HalfOpenGate(t)
    /\ Post(t, IF half_open_saturated(inner, config)
                 THEN saturated_gate_notifications(inner) ELSE <<>>)

ObsClosedOpReturns(t, r) ==
    NoPending(t) /\ ClosedOpReturns(t, r) /\ Post(t, <<result_notification(config, r)>>)

ObsClosedTimeout(t) == NoPending(t) /\ ClosedTimeout(t) /\ Post(t, <<ResultNote("Timeout")>>)

ObsClosedResult(t) ==
    NoPending(t) /\ ClosedResult(t) /\ Post(t, <<result_notification(config, result[t])>>)

ObsClosedCheckOpen(t) == NoPending(t) /\ ClosedCheckOpen(t) /\ UNCHANGED obsVars

ObsClosedToOpen(t) ==
    NoPending(t) /\ ClosedToOpen(t) /\ Post(t, <<StateChangeNote(last_event')>>)

ObsHalfOpenOpReturns(t, r) == NoPending(t) /\ HalfOpenOpReturns(t, r) /\ UNCHANGED obsVars

ObsHalfOpenTimeout(t) ==
    NoPending(t) /\ HalfOpenTimeout(t) /\ Post(t, <<ResultNote("Timeout")>>)

ObsHalfOpenDecrement(t) == NoPending(t) /\ HalfOpenDecrement(t) /\ UNCHANGED obsVars

ObsHalfOpenResult(t) ==
    NoPending(t) /\ HalfOpenResult(t) /\ Post(t, <<result_notification(config, result[t])>>)

ObsHalfOpenCheckClose(t) == NoPending(t) /\ HalfOpenCheckClose(t) /\ UNCHANGED obsVars

ObsHalfOpenToClosed(t) ==
    NoPending(t) /\ HalfOpenToClosed(t) /\ Post(t, <<StateChangeNote(last_event')>>)

ObsHalfOpenToOpen(t) ==
    NoPending(t) /\ HalfOpenToOpen(t) /\ Post(t, <<StateChangeNote(last_event')>>)

ObsPoisonedStep(t) == NoPending(t) /\ PoisonedStep(t) /\ UNCHANGED obsVars

NextObs ==
    \/ ObsTick /\ UNCHANGED <<errVars, probeOk>>
    \/ ObsTrip /\ UNCHANGED <<errVars, probeOk>>
    \/ ObsReset /\ UNCHANGED <<errVars, probeOk>>
    \/ \E a \in Callers : Notify(a) /\ UNCHANGED <<errVars, probeOk>>
    \/ \E a \in Callers : NotifyObserverPanics(a) /\ UNCHANGED <<errVars, probeOk>>
    \/ \E a \in Callers : NotifyMutexPoisoned(a) /\ UNCHANGED <<errVars, probeOk>>
    \/ \E t \in Threads : ObsBegin(t) /\ UNCHANGED <<errVars, probeOk>>
    \/ \E t \in Threads : ObsOpenCheck(t) /\ UNCHANGED <<errVars, probeOk>>
    \/ \E t \in Threads : ObsOpenToHalfOpen(t) /\ probeOk' = 0 /\ UNCHANGED errVars
    \/ \E t \in Threads : ObsOpenReject(t) /\ UNCHANGED <<errVars, probeOk>>
    \/ \E t \in Threads : ObsOpenRetryAfter(t) /\ UNCHANGED <<errVars, probeOk>>
    \/ \E t \in Threads : ObsHalfOpenGate(t) /\ UNCHANGED <<errVars, probeOk>>
    \/ \E t \in Threads : \E r \in OpResults(config) : ObsClosedOpReturns(t, r) /\ UNCHANGED <<errVars, probeOk>>
    \/ \E t \in Threads : ObsClosedTimeout(t) /\ UNCHANGED <<errVars, probeOk>>
    \/ \E t \in Threads : ObsClosedResult(t) /\ UNCHANGED <<errVars, probeOk>>
    \/ \E t \in Threads : ObsClosedCheckOpen(t) /\ UNCHANGED <<errVars, probeOk>>
    \/ \E t \in Threads : ObsClosedToOpen(t) /\ UNCHANGED <<errVars, probeOk>>
    \/ \E t \in Threads : \E r \in OpResults(config) : ObsHalfOpenOpReturns(t, r) /\ UNCHANGED <<errVars, probeOk>>
    \/ \E t \in Threads : ObsHalfOpenTimeout(t) /\ UNCHANGED <<errVars, probeOk>>
    \/ \E t \in Threads : ObsHalfOpenDecrement(t) /\ UNCHANGED <<errVars, probeOk>>
    \/ \E t \in Threads : ObsHalfOpenResult(t) /\ ProbeRecorded(t) /\ UNCHANGED errVars
    \/ \E t \in Threads : ObsHalfOpenCheckClose(t) /\ UNCHANGED <<errVars, probeOk>>
    \/ \E t \in Threads : ObsHalfOpenToClosed(t) /\ UNCHANGED <<errVars, probeOk>>
    \/ \E t \in Threads : ObsHalfOpenToOpen(t) /\ UNCHANGED <<errVars, probeOk>>
    \/ \E t \in Threads : ObsPoisonedStep(t) /\ UNCHANGED <<errVars, probeOk>>

SpecObs == InitObs /\ [][NextObs]_vars

----------------------------------------------------------------------------
(* Properties *)

AllIdle == \A t \in Threads : pc[t] = "idle"

InProbe(t) == pc[t] \in {"half_open_op", "half_open_decrement"}

(* C1, as stated: a new breaker with failure_threshold = k, no predicate
   and no operation timeout, after k sequential calls whose operations all
   failed, is Open; after each of the first k-1 it is still Closed unless
   the results window has reached minimum_request_threshold_for_rate. *)
C1_AsStated ==
    (/\ AllIdle
     /\ failRun >= 1
     /\ config.error_predicate = None
     /\ config.operation_timeout = None)
    => /\ failRun = config.failure_threshold => inner.state = Open
       /\ (/\ failRun < config.failure_threshold
           /\ Len(inner.results_window) < config.minimum_request_threshold_for_rate)
          => inner.state = Closed

(* C1, amended: the same, the first k-1 failures leaving the breaker
   Closed when moreover no slow-call rate threshold is configured. *)
C1_KFailuresOpen ==
    (/\ AllIdle
     /\ failRun >= 1
     /\ config.error_predicate = None
     /\ config.operation_timeout = None)
    => /\ failRun = config.failure_threshold => inner.state = Open
       /\ (/\ failRun < config.failure_threshold
           /\ Len(inner.results_window) < config.minimum_request_threshold_for_rate
           /\ config.slow_call_rate_threshold = None)
          => inner.state = Closed

C1_Witness ==
    /\ AllIdle
    /\ config.failure_threshold >= 2
    /\ failRun = config.failure_threshold
    /\ inner.consecutive_failures = config.failure_threshold
    /\ config.error_predicate = None
    /\ config.operation_timeout = None
    /\ inner.state = Open
    /\ last_event = TransitionEvent(Closed, Open, "Failure threshold reached")

(* C2: a call that starts alone on an Open breaker whose reset_timeout has
   elapsed is never rejected: it enters HalfOpen, with consecutive_successes
   and the probe count at 0 on entry, is admitted and runs as a probe. *)
C2_ElapsedOpenProbes ==
    \A t \in Threads : solo = t =>
        /\ pc[t] \in {"open_check", "to_half_open", "half_open_gate", "half_open_op",
                      "half_open_decrement", "half_open_result",
                      "half_open_check_close", "half_open_to_closed",
                      "half_open_to_open"}
        /\ pc[t] = "half_open_gate" =>
              /\ inner.state = HalfOpen
              /\ inner.consecutive_successes = 0
              /\ inner.half_open_concurrency_count = 0
              /\ last_event = TransitionEvent(Open, HalfOpen, "Reset timeout elapsed")
        /\ pc[t] = "half_open_op" =>
              /\ inner.state = HalfOpen
              /\ inner.half_open_concurrency_count = 1

C2_Witness ==
    \E t \in Threads :
        /\ solo = t
        /\ pc[t] = "half_open_op"
        /\ now - Unwrap(inner.opened_at) = config.reset_timeout

(* C3: m successful probes in a row since HalfOpen was entered, with no
   other call in between, leave the breaker Closed after the m-th and
   HalfOpen after each earlier one; Closed is entered with
   consecutive_failures = 0 and both instants cleared. *)
C3_MSuccessesClose ==
    (AllIdle /\ hoRun >= 1)
    => /\ hoRun < config.success_threshold_to_close => inner.state = HalfOpen
       /\ hoRun = config.success_threshold_to_close =>
              /\ inner.state = Closed
              /\ inner.consecutive_failures = 0
              /\ inner.opened_at = None
              /\ inner.half_open_entered_at = None

C3_Witness ==
    /\ AllIdle
    /\ config.success_threshold_to_close >= 2
    /\ hoRun = config.success_threshold_to_close
    /\ inner.state = Closed
    /\ last_event = TransitionEvent(HalfOpen, Closed, "Success threshold reached")

(* C4: a call whose admitted probe failed with a counted error does not
   return before it has set the state to Open, whatever the counters and
   windows are. *)
C4_ProbeFailureOpens ==
    [][\A t \in Threads :
          (/\ pc[t] \in {"half_open_result", "half_open_to_open"}
           /\ result[t] # "Ok"
           /\ should_count_as_failure(config, result[t])
           /\ pc'[t] = "idle"
           /\ ret'[t] # RetPanic)
          => /\ inner'.state = Open
             /\ last_event'.to_state = Open
             /\ last_event'.reason = "Failure in half-open state"]_vars

C4_Witness ==
    /\ AllIdle
    /\ inner.state = Open
    /\ last_event = TransitionEvent(HalfOpen, Open, "Failure in half-open state")
    /\ inner.consecutive_failures < config.failure_threshold
    /\ inner.results_window = <<TRUE, FALSE>>
    /\ \E t \in Threads : ret[t] = RetErr("Internal")

(* C5: a call that finds the HalfOpen gate saturated returns at once with
   CircuitBreakerOpen { retry_after = 100 ms }, counted as a rejection and
   leaving both consecutive counters and the probe count alone. *)
C5_SaturatedGateRejects ==
    [][\A t \in Threads :
          (/\ pc[t] = "half_open_gate"
           /\ half_open_saturated(inner, config)
           /\ pc'[t] # pc[t])
          => /\ pc'[t] = "idle"
             /\ ret'[t] = RetOpen(HalfOpenRetryAfterMs)
             /\ lock' = "free"
             /\ inner' = record_rejected(inner)]_vars

(* C6: the probe count never exceeds half_open_max_concurrent_operations
   and equals the number of admitted probes still under way. *)
C6_ProbeCountExact ==
    /\ inner.half_open_concurrency_count <= config.half_open_max_concurrent_operations
    /\ inner.half_open_concurrency_count = Cardinality({t \in Threads : InProbe(t)})

(* C7: a caller that decided on Open -> HalfOpen but finds the breaker
   already HalfOpen does not enter HalfOpen again: no transition event, the
   probe count and consecutive_successes are left as they are. *)
C7_TransitionOnce ==
    [][\A t \in Threads :
          (/\ pc[t] = "to_half_open"
           /\ inner.state = HalfOpen
           /\ pc'[t] # pc[t]
           /\ lock = "free")
          => /\ inner'.half_open_concurrency_count = inner.half_open_concurrency_count
             /\ inner'.consecutive_successes = inner.consecutive_successes
             /\ last_event' = last_event]_vars

(* C8: every change of state made by an execute call is one of
   Closed -> Open, Open -> HalfOpen, HalfOpen -> Closed, HalfOpen -> Open. *)
C8_OnlyRuleTransitions ==
    (/\ last_event.reason \notin {"", "Manual trip", "Manual reset"}
     /\ last_event.from_state # last_event.to_state)
    => <<last_event.from_state, last_event.to_state>> \in
          {<<Closed, Open>>, <<Open, HalfOpen>>, <<HalfOpen, Closed>>, <<HalfOpen, Open>>}

(* C9, as stated: opened_at is set iff the state is Open and
   half_open_entered_at is set iff the state is HalfOpen. *)
C9_AsStated ==
    /\ IsSome(inner.opened_at) <=> inner.state = Open
    /\ IsSome(inner.half_open_entered_at) <=> inner.state = HalfOpen

(* C9, amended: opened_at is set whenever the state is Open and
   half_open_entered_at whenever it is HalfOpen, and both are unset
   whenever the state is Closed. *)
C9_InstantsFollowState ==
    /\ inner.state = Open => IsSome(inner.opened_at)
    /\ inner.state = HalfOpen => IsSome(inner.half_open_entered_at)
    /\ inner.state = Closed =>
          (inner.opened_at = None /\ inner.half_open_entered_at = None)

C9_Witness ==
    /\ inner.state = Closed
    /\ inner.opened_at = None
    /\ inner.half_open_entered_at = None
    /\ last_event = TransitionEvent(HalfOpen, Closed, "Success threshold reached")

(* C10: exactly one of (Open with opened_at set), (HalfOpen with
   half_open_entered_at set), (Closed) holds. *)
C10_ExactlyOneCase ==
    Cardinality({i \in 1..3 :
        \/ i = 1 /\ inner.state = Open /\ IsSome(inner.opened_at)
        \/ i = 2 /\ inner.state = HalfOpen /\ IsSome(inner.half_open_entered_at)
        \/ i = 3 /\ inner.state = Closed}) = 1

C10_Witness ==
    /\ inner.state = Open
    /\ IsSome(inner.opened_at)
    /\ manual = 0
    /\ last_event.from_state = Closed

(* C11: both windows hold at most sliding_window_size entries, and a push
   onto a window at capacity evicts the oldest entry from the front before
   the new outcome is appended. *)
C11_WindowsBounded ==
    [][/\ Len(inner'.results_window) <= config.sliding_window_size
       /\ Len(inner'.slow_call_window) <= config.sliding_window_size
       /\ (/\ inner'.results_window # inner.results_window
           /\ inner'.results_window # <<>>
           /\ Len(inner.results_window) = config.sliding_window_size)
          => \E x \in BOOLEAN :
                inner'.results_window = Append(Tail(inner.results_window), x)
       /\ (/\ inner'.slow_call_window # inner.slow_call_window
           /\ inner'.slow_call_window # <<>>
           /\ Len(inner.slow_call_window) = config.sliding_window_size)
          => \E x \in BOOLEAN :
                inner'.slow_call_window = Append(Tail(inner.slow_call_window), x)]_vars

(* C12: under every interleaving of execute, trip and reset the two
   consecutive counters are never both positive. *)
C12_CountersExclusive ==
    inner.consecutive_failures = 0 \/ inner.consecutive_successes = 0

C12_Witness ==
    /\ AllIdle
    /\ inner.consecutive_successes >= 1
    /\ inner.consecutive_failures = 0
    /\ inner.metrics.failed_requests >= 1

(* C13: total_requests is the sum of the successful, failed, rejected and
   timed-out requests. *)
C13_TotalIsSum ==
    inner.metrics.total_requests =
        inner.metrics.successful_requests + inner.metrics.failed_requests
        + inner.metrics.rejected_requests + inner.metrics.timeout_requests

C13_Witness ==
    /\ AllIdle
    /\ inner.metrics.successful_requests >= 1
    /\ inner.metrics.failed_requests >= 1
    /\ inner.metrics.rejected_requests >= 1

(* The call of caller t runs undisturbed: no other call is under way and no
   trip() or reset() has been made since it started. *)
Undisturbed(t) == pc[t] # "idle" /\ IsSome(snap)

Returns(t) == pc[t] # "idle" /\ pc'[t] = "idle"

(* C14: an undisturbed call on an Open breaker whose reset_timeout has not
   elapsed does not run the operation, returns CircuitBreakerOpen with
   retry_after = max(0, reset_timeout - elapsed) <= reset_timeout, and
   changes nothing but total_requests and rejected_requests, each by 1. *)
C14_OpenRejectionFrame ==
    [][\A t \in Threads :
          Undisturbed(t) =>
            /\ (/\ pc[t] = "open_check"
                /\ inner.state = Open
                /\ now - Unwrap(inner.opened_at) < config.reset_timeout
                /\ pc'[t] # pc[t])
               => pc'[t] = "open_reject" /\ inner' = inner
            /\ (pc[t] = "open_reject" /\ pc'[t] # pc[t])
               => /\ pc'[t] = "open_retry_after"
                  /\ inner' = [Unwrap(snap) EXCEPT
                                  !.metrics.total_requests = @ + 1,
                                  !.metrics.rejected_requests = @ + 1]
            /\ (pc[t] = "open_retry_after" /\ pc'[t] # pc[t])
               => LET left == config.reset_timeout - (now - Unwrap(inner.opened_at))
                      after == IF left > 0 THEN left ELSE 0
                  IN  /\ pc'[t] = "idle"
                      /\ ret'[t] = RetOpen(after)
                      /\ after <= config.reset_timeout
                      /\ result'[t] = NoResult
                      /\ inner' = inner]_vars

C14_Witness ==
    /\ AllIdle
    /\ inner.state = Open
    /\ inner.metrics.rejected_requests = 1
    /\ inner.metrics.total_requests = 2
    /\ inner.results_window = <<FALSE>>
    /\ \E t \in Threads : ret[t] = RetOpen(0)

(* C15: with the failure-rate rule alone able to open the circuit (rate
   threshold 1/2, the consecutive threshold out of reach), a new breaker fed
   minimum_request_threshold_for_rate outcomes one after another, at least
   half of them failures in any order, is Open once the last is recorded. *)
C15_RateRuleAnyOrder ==
    (/\ AllIdle
     /\ seqRun = config.minimum_request_threshold_for_rate
     /\ config.failure_threshold > MaxCalls
     /\ Len(inner.results_window) = config.minimum_request_threshold_for_rate
     /\ RateGeq(Rate(CountOf(inner.results_window, FALSE), Len(inner.results_window)),
                config.failure_rate_threshold))
    => inner.state = Open

(* C16: in Closed with a slow-call rate threshold configured, an undisturbed
   call whose recorded outcome (success or counted failure) leaves the
   slow-call window non-empty with slow_count / len >= the threshold leaves
   the breaker Open. *)
C16_SlowRateOpens ==
    [][\A t \in Threads :
          (/\ Undisturbed(t)
           /\ Returns(t)
           /\ Unwrap(snap).state = Closed
           /\ IsSome(config.slow_call_rate_threshold)
           /\ inner'.slow_call_window # Unwrap(snap).slow_call_window
           /\ inner'.slow_call_window # <<>>
           /\ RateGeq(Rate(CountOf(inner'.slow_call_window, TRUE),
                           Len(inner'.slow_call_window)),
                      Unwrap(config.slow_call_rate_threshold)))
          => inner'.state = Open]_vars

(* C17: an undisturbed call whose operation exceeds operation_timeout
   returns a Timeout error and has increased timeout_requests by exactly 1
   and consecutive_failures by exactly 1. *)
C17_TimeoutCountedOnce ==
    [][\A t \in Threads :
          (/\ Undisturbed(t)
           /\ Returns(t)
           /\ result[t] = TimeoutError)
          => /\ ret'[t] = <<"Err", TimeoutError>>
             /\ inner'.metrics.timeout_requests =
                    Unwrap(snap).metrics.timeout_requests + 1
             /\ inner'.consecutive_failures =
                    Unwrap(snap).consecutive_failures + 1]_vars

(* C18: an undisturbed call that ends with an error for which the configured
   predicate returns false is recorded as a success: consecutive_failures
   and failed_requests are not increased, the results window gains a true
   entry and no false one, successful_requests grows by 1, and the error is
   what the caller gets. *)
C18_UncountedErrorIsSuccess ==
    [][\A t \in Threads :
          (/\ Undisturbed(t)
           /\ Returns(t)
           /\ IsSome(config.error_predicate)
           /\ result'[t] \in OpErrors \cup {TimeoutError}
           /\ result'[t] \notin Unwrap(config.error_predicate))
          => /\ ret'[t] = <<"Err", result'[t]>>
             /\ inner'.consecutive_failures <= Unwrap(snap).consecutive_failures
             /\ inner'.metrics.failed_requests = Unwrap(snap).metrics.failed_requests
             /\ inner'.metrics.successful_requests =
                    Unwrap(snap).metrics.successful_requests + 1
             /\ inner'.results_window =
                    PushWindow(Unwrap(snap).results_window,
                               config.sliding_window_size, TRUE)]_vars

(* C19: when an undisturbed call has run the operation and it did not time
   out, execute returns the operation's own result: Ok for Ok, the same
   error for an error, counted or not, circuit opened or not. *)
C19_ReturnsOwnResult ==
    [][\A t \in Threads :
          (/\ Undisturbed(t)
           /\ Returns(t)
           /\ result'[t] \in {"Ok"} \cup OpErrors)
          => ret'[t] = IF result'[t] = "Ok" THEN <<"Ok">>
                                           ELSE <<"Err", result'[t]>>]_vars

C19_Witness ==
    /\ AllIdle
    /\ inner.state = Open
    /\ last_event = TransitionEvent(Closed, Open, "Failure threshold reached")
    /\ \E t \in Threads : result[t] = "Validation" /\ ret[t] = <<"Err", "Validation">>
    /\ \E t \in Threads : result[t] = "Internal" /\ ret[t] = <<"Err", "Internal">>

(* C20: from any state trip() leaves state = Open with opened_at set,
   consecutive_failures = failure_threshold and consecutive_successes = 0,
   and leaves both windows and the request totals as they were. *)
C20_TripEffect ==
    [][(manual' = manual + 1 /\ last_event'.reason = "Manual trip")
       => /\ inner'.state = Open
          /\ IsSome(inner'.opened_at)
          /\ inner'.consecutive_failures = config.failure_threshold
          /\ inner'.consecutive_successes = 0
          /\ inner'.results_window = inner.results_window
          /\ inner'.slow_call_window = inner.slow_call_window
          /\ inner'.metrics.total_requests = inner.metrics.total_requests
          /\ inner'.metrics.successful_requests = inner.metrics.successful_requests
          /\ inner'.metrics.failed_requests = inner.metrics.failed_requests
          /\ inner'.metrics.rejected_requests = inner.metrics.rejected_requests
          /\ inner'.metrics.timeout_requests = inner.metrics.timeout_requests]_vars

C20_Witness ==
    /\ last_event = TransitionEvent(HalfOpen, Open, "Manual trip")
    /\ inner.state = Open
    /\ inner.opened_at = Some(now)
    /\ inner.consecutive_failures = config.failure_threshold
    /\ inner.results_window # <<>>
    /\ \E t \in Threads : pc[t] = "half_open_op"

(* C21: from any state reset() leaves state = Closed, both consecutive
   counters and the probe count 0, both windows empty, and opened_at and
   half_open_entered_at unset. *)
C21_ResetEffect ==
    [][(manual' = manual + 1 /\ last_event'.reason = "Manual reset")
       => /\ inner'.state = Closed
          /\ inner'.consecutive_failures = 0
          /\ inner'.consecutive_successes = 0
          /\ inner'.half_open_concurrency_count = 0
          /\ inner'.results_window = <<>>
          /\ inner'.slow_call_window = <<>>
          /\ inner'.opened_at = None
          /\ inner'.half_open_entered_at = None]_vars

C21_Witness ==
    /\ last_event = TransitionEvent(HalfOpen, Closed, "Manual reset")
    /\ inner.state = Closed
    /\ inner.results_window = <<>>
    /\ inner.metrics.failed_requests >= 1
    /\ \E t \in Threads : pc[t] = "half_open_op"

(* C25: the metrics' state and last-transition time stamp are written in
   the critical section that writes the state, so metrics().state equals
   state() in every reachable state. *)
C25_MetricsStateInStep ==
    [][/\ inner'.metrics.state = inner'.state
       /\ inner'.state # inner.state
          => inner'.metrics.last_transition_timestamp = Stamped]_vars

C25_Witness ==
    /\ inner.state = HalfOpen
    /\ inner.metrics.state = HalfOpen
    /\ inner.metrics.last_transition_timestamp = Stamped
    /\ last_event = TransitionEvent(Open, HalfOpen, "Reset timeout elapsed")

(* C26: after every operation failure_rate_in_window is absent exactly when
   the results window is empty and is failures / len of the window
   otherwise, and slow_call_rate_in_window is the same for the slow-call
   window. *)
C26_RatesFollowWindows ==
    /\ inner.metrics.failure_rate_in_window =
          IF inner.results_window = <<>> THEN None
          ELSE Some(Rate(CountOf(inner.results_window, FALSE),
                         Len(inner.results_window)))
    /\ inner.metrics.slow_call_rate_in_window =
          IF inner.slow_call_window = <<>> THEN None
          ELSE Some(Rate(CountOf(inner.slow_call_window, TRUE),
                         Len(inner.slow_call_window)))

(* C22: with a counting observer registered and no execute call made, once
   trip() and reset() have returned the observer has received one
   state-change notification per trip() and per reset() and one reset
   notification per reset(); the last thing it received is the state change
   (to Open, "Manual trip") after a trip() and the reset notification, which
   follows the state change (to Closed, "Manual reset"), after a reset(). *)
C22_ManualNotifications ==
    (/\ observers = <<"counting">>
     /\ calls = 0
     /\ NoPending(0))
    => /\ seen.state_change = manual
       /\ seen.reset = resets
       /\ seen.attempt = 0 /\ seen.result = 0
       /\ (manual >= 1 /\ last_event.reason = "Manual trip")
          => /\ last_seen.kind = "state_change"
             /\ last_seen.arg.to_state = Open
             /\ last_seen.arg.reason = "Manual trip"
       /\ (manual >= 1 /\ last_event.reason = "Manual reset")
          => last_seen = ResetNote

C22_Witness ==
    /\ observers = <<"counting">>
    /\ calls = 0
    /\ NoPending(0)
    /\ manual = 2
    /\ resets = 1
    /\ seen.state_change = 2
    /\ seen.reset = 1
    /\ last_event = TransitionEvent(Open, Closed, "Manual reset")

(* A caller that holds the state lock, and a caller that is inside user
   code: the operation or an observer callback *)
HoldsStateLock(t) == lock = "deadlocked" /\ pc[t] = "deadlocked"

InUserCode(t) == pending[t] # <<>> \/ pc[t] \in {"closed_op", "half_open_op"}

(* C23: no caller is inside user code while it holds the state lock. *)
C23_NoUserCodeUnderLock ==
    \A t \in Threads : HoldsStateLock(t) => ~InUserCode(t)

C23_Witness ==
    \E t \in Threads :
        /\ HoldsStateLock(t)
        /\ seen.attempt >= 2
        /\ \E u \in Threads : pc[u] = "half_open_op"

(* C24: a panic of an observer callback stays with that notification: no
   later execute, trip or reset call fails because of it. *)
C24_ObserverPanicIsolated ==
    /\ manual_ret # RetMutexPoisoned
    /\ \A t \in Threads : ret[t] # RetMutexPoisoned

----------------------------------------------------------------------------
(* The error model at work: an error is built, wrapped in contexts,
   cloned, and handed to the autocorrection engine. *)

RECURSIVE context_depth(_)
context_depth(e) ==
    IF e.variant = "WithRichContext" THEN 1 + context_depth(e.inner[1]) ELSE 0

InitErr ==
    /\ InitBreaker({BaseConfig}, <<>>)
    /\ InitError(BaseErrors, FileSystems)

AddContext(context) ==
    /\ context_depth(error) < MaxContexts
    /\ error' = add_context(error, context)
    /\ stack' = Append(stack, context)
    /\ copy' = None
    /\ suggestion' = None
    /\ UNCHANGED <<base, fs>>

AddContextMsg(message) ==
    /\ context_depth(error) < MaxContexts
    /\ error' = add_context_msg(error, message)
    /\ stack' = Append(stack, ErrorContext_new(message))
    /\ copy' = None
    /\ suggestion' = None
    /\ UNCHANGED <<base, fs>>

CloneError ==
    /\ error' = clone(error)
    /\ base' = error'
    /\ stack' = <<>>
    /\ copy' = Some([of |-> error, clone |-> error'])
    /\ suggestion' = None
    /\ UNCHANGED fs

Suggest ==
    /\ suggestion' = Some([error |-> error, dirs |-> fs,
                           result |-> suggest_autocorrection(error, fs)])
    /\ UNCHANGED <<error, base, stack, fs, copy>>

NextErr ==
    \/ \E c \in DiagnosticContexts : AddContext(c) /\ UNCHANGED breakerVars
    \/ \E m \in {Text("while loading the profile")} : AddContextMsg(m) /\ UNCHANGED breakerVars
    \/ CloneError /\ UNCHANGED breakerVars
    \/ Suggest /\ UNCHANGED breakerVars

SpecErr == InitErr /\ [][NextErr]_vars

----------------------------------------------------------------------------
(* Properties of the error model *)

RECURSIVE Innermost(_)
Innermost(e) ==
    IF e.variant = "WithRichContext" THEN Innermost(e.inner[1]) ELSE e

(* e is b inside the contexts of st, the last of them outermost *)
RECURSIVE WrappedIn(_, _, _)
WrappedIn(e, b, st) ==
    IF st = <<>> THEN e = b
    ELSE /\ e.variant = "WithRichContext"
         /\ e.context = Some(st[Len(st)])
         /\ WrappedIn(e.inner[1], b, SubSeq(st, 1, Len(st) - 1))

(* C27: whatever contexts add_context and add_context_msg have stacked on an
   error, the wrapped error has the category of that error, which is the
   category of its innermost variant that is not a context, and the error
   sits unchanged, variant and fields, under the contexts. *)
C27_ContextKeepsCategory ==
    stack # <<>> =>
        /\ category(error) = category(base)
        /\ category(error) = category(Innermost(error))
        /\ Innermost(error).variant # "WithRichContext"
        /\ WrappedIn(error, base, stack)

C27_Witness ==
    /\ Len(stack) = MaxContexts
    /\ ~IsSome(stack[1].diagnostic_info)
    /\ IsSome(stack[Len(stack)].diagnostic_info)
    /\ base.variant = "NotFound"
    /\ category(error) = "NotFound"
    /\ error.variant = "WithRichContext"

(* c is e with every foreign source replaced by an io::Error that displays
   the same, of the same kind when e is an Io error: same variant, same
   scalar fields, same context, and the same of the errors inside. *)
RECURSIVE ClonedFrom(_, _)
ClonedFrom(c, e) ==
    /\ c.variant = e.variant
    /\ c.fields = e.fields
    /\ c.context = e.context
    /\ IsSome(c.source) <=> IsSome(e.source)
    /\ IsSome(e.source) =>
           /\ IsSome(c.source)
           /\ Unwrap(c.source).type = "io"
           /\ Unwrap(c.source).display = Unwrap(e.source).display
           /\ e.variant = "Io" => Unwrap(c.source).kind = Unwrap(e.source).kind
    /\ Len(c.inner) = Len(e.inner)
    /\ \A i \in 1..Len(e.inner) :
           i <= Len(c.inner) => ClonedFrom(c.inner[i], e.inner[i])

(* C28: the clone of an error has its variant, its category and its scalar
   fields; a foreign source is replaced by a surrogate that displays the
   same and, in an Io error, has the same io::ErrorKind; and the clone of
   the clone still has the category of the error. *)
C28_CloneKeepsError ==
    IsSome(copy) =>
        /\ ClonedFrom(Unwrap(copy).clone, Unwrap(copy).of)
        /\ category(Unwrap(copy).clone) = category(Unwrap(copy).of)
        /\ category(clone(Unwrap(copy).clone)) = category(Unwrap(copy).of)

C28_Witness ==
    /\ IsSome(copy)
    /\ Unwrap(copy).of.variant = "WithRichContext"
    /\ Innermost(Unwrap(copy).of).variant = "Parse"
    /\ Unwrap(Innermost(Unwrap(copy).of).source).type = "custom"
    /\ Unwrap(Innermost(Unwrap(copy).clone).source).type = "io"
    /\ Unwrap(copy).clone # Unwrap(copy).of
    /\ error = Unwrap(copy).clone

(* C29: asked about an error whose rich context carries a DiagnosticResult
   with at least one suggested fix, suggest_autocorrection answers with the
   tool's fix whatever the category of the error inside: fix type
   TextReplacement, the fixed description, confidence 0.85, the diagnostic
   code as targets_error_code and, when the diagnostic has a primary
   location, a TextReplace at that file, line and column whose replacement
   text is the fixes joined by newlines and whose column_end is the column
   plus the number of characters of that text that are not newlines, at
   least 1. *)
C29_DiagnosticFixFirst ==
    IsSome(suggestion) =>
        LET e == Unwrap(suggestion).error
            r == Unwrap(suggestion).result
            ctx == get_rich_context(e)
            d == Unwrap(Unwrap(ctx).diagnostic_info)
            loc == Unwrap(d.primary_location)
            text == join(d.suggested_fixes, <<"\n">>)
            chars == Cardinality({i \in 1..Len(text) : text[i] # "\n"})
        IN  (/\ IsSome(ctx)
             /\ IsSome(Unwrap(ctx).diagnostic_info)
             /\ Len(d.suggested_fixes) > 0) =>
                /\ IsSome(r)
                /\ Unwrap(r).fix_type = "TextReplacement"
                /\ Unwrap(r).description = Text("Apply fix suggested by diagnostic tool.")
                /\ Unwrap(r).confidence = 85
                /\ Unwrap(r).targets_error_code = d.diagnostic_code
                /\ IsSome(d.primary_location) =>
                       /\ IsSome(Unwrap(r).details)
                       /\ Unwrap(Unwrap(r).details).kind = "TextReplace"
                       /\ Unwrap(Unwrap(r).details).file_path = loc.file
                       /\ Unwrap(Unwrap(r).details).line_start = loc.line
                       /\ Unwrap(Unwrap(r).details).line_end = loc.line
                       /\ Unwrap(Unwrap(r).details).column_start = loc.column
                       /\ Unwrap(Unwrap(r).details).replacement_text = text
                       /\ Unwrap(Unwrap(r).details).column_end =
                              loc.column + (IF chars >= 1 THEN chars ELSE 1)

C29_Witness ==
    /\ IsSome(suggestion)
    /\ category(Unwrap(suggestion).error) = "NotFound"
    /\ IsSome(get_diagnostic_info(Unwrap(suggestion).error))
    /\ Len(Unwrap(get_diagnostic_info(Unwrap(suggestion).error)).suggested_fixes) = 2
    /\ IsSome(Unwrap(get_diagnostic_info(Unwrap(suggestion).error)).primary_location)
    /\ Unwrap(Unwrap(suggestion).result).fix_type = "TextReplacement"
    /\ Unwrap(Unwrap(Unwrap(suggestion).result).details).column_end = 15

(* C30: asked about a NotFound error, which carries no diagnostic,
   suggest_autocorrection answers with confidence 0.7 and a description
   naming the resource type and the identifier; for resource type "file" or
   "path" the fix type is ExecuteCommand and the commands are mkdir -p of
   the identifier's parent, only when that parent is not empty and does not
   exist, then touch of the identifier; for any other resource type the fix
   type is ManualInterventionRequired and there are no commands. *)
C30_NotFoundFix ==
    IsSome(suggestion) /\ Unwrap(suggestion).error.variant = "NotFound" =>
        LET e == Unwrap(suggestion).error
            r == Unwrap(suggestion).result
            resource_type == Unwrap(e.fields[1])
            identifier == Unwrap(e.fields[2])
            par == parent(identifier)
            mkdir == IsSome(par) /\ Unwrap(par) # <<>>
                     /\ Unwrap(par) \notin Unwrap(suggestion).dirs
            cmds == Unwrap(r).commands_to_apply
        IN  /\ IsSome(r)
            /\ Unwrap(r).confidence = 70
            /\ Unwrap(r).description =
                   <<"Resource type '">> \o resource_type
                   \o <<"' with identifier '">> \o identifier
                   \o <<"' not found. Consider creating it if it's a file/directory, or verify the path/name.">>
            /\ resource_type \in {Text("file"), Text("path")} =>
                   /\ Unwrap(r).fix_type = "ExecuteCommand"
                   /\ Len(cmds) = (IF mkdir THEN 2 ELSE 1)
                   /\ cmds[Len(cmds)] = <<"touch \"">> \o identifier \o <<"\"">>
                   /\ mkdir => cmds[1] = <<"mkdir -p \"">> \o Unwrap(par) \o <<"\"">>
            /\ resource_type \notin {Text("file"), Text("path")} =>
                   /\ Unwrap(r).fix_type = "ManualInterventionRequired"
                   /\ cmds = <<>>

C30_Witness ==
    /\ IsSome(suggestion)
    /\ Unwrap(suggestion).error = NotFound(Text("file"), <<"/", "tmp", "missing", "file", ".txt">>)
    /\ Unwrap(suggestion).dirs = {}
    /\ Len(Unwrap(Unwrap(suggestion).result).commands_to_apply) = 2
    /\ Unwrap(Unwrap(suggestion).result).fix_type = "ExecuteCommand"

(* C31: asked about an Io error whose io::Error has kind NotFound and whose
   path has an extension and a parent directory that is not empty and does
   not exist, suggest_autocorrection answers with fix type ExecuteCommand,
   confidence 0.65 and the commands mkdir -p of the parent, then touch of
   the path. *)
C31_IoNotFoundCreatesFile ==
    IsSome(suggestion) =>
        LET e == Unwrap(suggestion).error
            r == Unwrap(suggestion).result
            p == Unwrap(e.fields[1])
            par == SubSeq(p, 1, Len(p) - 2)
        IN  (/\ e.variant = "Io"
             /\ Unwrap(e.source).kind = "NotFound"
             /\ IsSome(e.fields[1])
             /\ Len(p) >= 3
             /\ p[Len(p)] \in Extensions
             /\ par \notin Unwrap(suggestion).dirs) =>
                /\ IsSome(r)
                /\ Unwrap(r).fix_type = "ExecuteCommand"
                /\ Unwrap(r).confidence = 65
                /\ Unwrap(r).commands_to_apply =
                       << <<"mkdir -p \"">> \o par \o <<"\"">>,
                          <<"touch \"">> \o p \o <<"\"">> >>

C31_Witness ==
    /\ IsSome(suggestion)
    /\ Unwrap(suggestion).error.variant = "Io"
    /\ Unwrap(Unwrap(suggestion).error.source).kind = "NotFound"
    /\ Unwrap(suggestion).error.fields[1] = Some(<<"/", "tmp", "missing", "file", ".txt">>)
    /\ Unwrap(suggestion).dirs = {}
    /\ Len(Unwrap(Unwrap(suggestion).result).commands_to_apply) = 2

----------------------------------------------------------------------------
(* C32: a HalfOpen probe that ends with an error the failure predicate
   does not count acts on the state machine as a success does: when it
   brings consecutive_successes to success_threshold_to_close, the call
   leaves the breaker Closed. *)
C32_UncountedProbeCloses ==
    [][\A t \in Threads :
          (/\ Undisturbed(t)
           /\ Returns(t)
           /\ pc[t] = "half_open_result"
           /\ inner.state = HalfOpen
           /\ result[t] # "Ok"
           /\ ~should_count_as_failure(config, result[t])
           /\ inner'.consecutive_successes >= config.success_threshold_to_close)
          => inner'.state = Closed]_vars

(* C33: no call blocks forever on the state lock: no caller is ever stuck
   in a write() that cannot be granted, and the lock is never held by a
   caller that will not release it. *)
C33_NoCallBlocksForever ==
    /\ lock # "deadlocked"
    /\ \A t \in Threads : pc[t] # "deadlocked"

(* C34: a call that sampled state Open and takes the rejection path does
   not panic: it returns a CircuitBreakerOpen error, whatever reset() and
   the other callers do meanwhile. *)
C34_RejectionNeverPanics ==
    [][\A t \in Threads :
          (pc[t] \in {"open_check", "open_reject", "open_retry_after"}
           /\ Returns(t))
          => /\ ret'[t] # RetPanic
             /\ ret'[t][1] = "Err"
             /\ ret'[t][2] = "CircuitBreakerOpen"]_vars

(* C35: an execute call is counted exactly once: when it returns,
   total_requests is 1 higher than when it started, exactly one of
   successful_requests, failed_requests, rejected_requests and
   timeout_requests is 1 higher and the others are as they were, and the
   results window has at most one entry more.  Stated for calls that run
   undisturbed, so that the counts are the call's own. *)
C35_CountedExactlyOnce ==
    [][\A t \in Threads :
          (Undisturbed(t) /\ Returns(t)) =>
              LET before == Unwrap(snap).metrics
                  after == inner'.metrics
                  grown == {k \in {"successful_requests", "failed_requests",
                                   "rejected_requests", "timeout_requests"} :
                                after[k] # before[k]}
              IN  /\ after.total_requests = before.total_requests + 1
                  /\ Cardinality(grown) = 1
                  /\ \A k \in grown : after[k] = before[k] + 1
                  /\ Len(inner'.results_window)
                         <= Len(Unwrap(snap).results_window) + 1]_vars

(* C36: the results window and the slow-call window always have the same
   length. *)
C36_WindowsSameLength ==
    Len(inner.results_window) = Len(inner.slow_call_window)

(* C37: in every reachable state, under every interleaving of execute,
   trip and reset, the consecutive_failures and consecutive_successes the
   metrics report are the breaker's own counters. *)
C37_MetricsCountersInStep ==
    /\ inner.metrics.consecutive_failures = inner.consecutive_failures
    /\ inner.metrics.consecutive_successes = inner.consecutive_successes

(* C38: execute moves the breaker from HalfOpen to Closed only when at
   least success_threshold_to_close operations admitted through the
   HalfOpen gate have succeeded since HalfOpen was last entered; the
   successes of operations admitted while the breaker was Closed do not
   count. *)
C38_ClosedByProbesOnly ==
    [][\A t \in Threads :
          (/\ pc[t] = "half_open_to_closed"
           /\ pc'[t] = "idle"
           /\ inner.state = HalfOpen
           /\ inner'.state = Closed)
          => probeOk >= config.success_threshold_to_close]_vars

----------------------------------------------------------------------------
(* C39: wrapping an error of category NotFound, Io or Configuration with
   add_context_msg, a context that carries no diagnostic, does not change
   what suggest_autocorrection answers: same fix type, same commands, same
   details as for the error inside. *)
C39_ContextKeepsSuggestion ==
    IsSome(suggestion) =>
        LET w == Unwrap(suggestion).error
            r == Unwrap(suggestion).result
            e == w.inner[1]
            plain == suggest_autocorrection(e, Unwrap(suggestion).dirs)
        IN  (/\ w.variant = "WithRichContext"
             /\ ~IsSome(Unwrap(w.context).diagnostic_info)
             /\ w = add_context_msg(e, Unwrap(w.context).message)
             /\ category(e) \in {"NotFound", "Io", "Configuration"}) =>
                /\ IsSome(r)
                /\ IsSome(plain)
                /\ Unwrap(r).fix_type = Unwrap(plain).fix_type
                /\ Unwrap(r).commands_to_apply = Unwrap(plain).commands_to_apply
                /\ Unwrap(r).details = Unwrap(plain).details

(* C40: an Autocorrection of fix type ExecuteCommand has at least one
   command to apply, and one of fix type ManualInterventionRequired or
   Information has none. *)
C40_CommandsMatchFixType ==
    (IsSome(suggestion) /\ IsSome(Unwrap(suggestion).result)) =>
        LET a == Unwrap(Unwrap(suggestion).result)
        IN  /\ a.fix_type = "ExecuteCommand" => a.commands_to_apply # <<>>
            /\ a.fix_type \in {"ManualInterventionRequired", "Information"} =>
                   a.commands_to_apply = <<>>

=============================================================================
